---- MODULE Spec2Model ----
(***************************************************************************)
(* Model of the per-client rate limiter of Go-Department-CRUD              *)
(* (package ratelimiter: getVisitor, startVisitorCleanup, RateLimiter) as  *)
(* it is wired into the router by routes.SetupRouter.                      *)
(*                                                                         *)
(* Time is the monotonic clock in whole seconds.  A token bucket keeps its *)
(* balance in "token-seconds": tokens * every, where every is the refill   *)
(* interval of the bucket in seconds (rate.Every(every * time.Second)), so *)
(* that one token is `every` units and one elapsed second refills one      *)
(* unit.  On whole seconds this is the exact value of the float64          *)
(* arithmetic of rate.Limiter.                                             *)
(***************************************************************************)
EXTENDS Integers, Sequences, FiniteSets, TLC

\* ------------------------------------------------------------------ bounds

\* Request goroutines that may be in flight at the same time.
NumProcs == 2
\* Requests served in one behaviour of Spec, where goroutines interleave
\* freely and time passes between any two steps.
MaxReqs == 2
\* Clock advances in one behaviour of Spec.
MaxTicks == 2
\* Requests served in one behaviour of SpecSeq, where requests are served one
\* after the other.
SeqMaxReqs == 4
\* Clock advances in one behaviour of SpecSeq.
SeqMaxTicks == 2
\* Requests served in one behaviour of SpecStall, where a request may stay
\* between getVisitor and limiter.Allow() while others are served.
StallMaxReqs == 3
\* Clock advances in one behaviour of SpecStall.
StallMaxTicks == 2
\* Requests served in one behaviour of SpecKey.
KeyMaxReqs == 2
\* Login and refresh-token requests served in one behaviour of SpecAuth.
AuthMaxReqs == 2
\* Login and refresh-token requests served in one behaviour of SpecAuthSeq,
\* where they are served one after the other.
AuthSeqMaxReqs == 3
\* Clock advances in one behaviour of SpecAuth.
AuthMaxTicks == 2
\* Department requests served in one behaviour of SpecDept, where they are
\* served one after the other.
DeptMaxReqs == 3
\* Department requests served in one behaviour of SpecDeptRace, where their
\* goroutines interleave freely.
DeptRaceMaxReqs == 4
\* Requests served in one behaviour of SpecLive.
LiveMaxReqs == 2
\* Clock advances while requests are served in one behaviour of SpecLive.
LiveMaxTicks == 1
\* The amounts (seconds) by which the clock advances in one step: less than
\* every refill interval, less than the longest one and more than the
\* shortest, and the shortest expireAfter.
TickSteps == {3, 27, 300}

Procs == 1..NumProcs

\* --------------------------------------------------------- configuration

\* time.Sleep(time.Minute) of the cleanup goroutine.
SleepInterval == 60

\* authGroup.Use(ratelimiter.RateLimiter(rate.Every(30*time.Second), 1, 5*time.Minute))
AuthEvery == 30
AuthBurst == 1
AuthTTL == 300

\* deptGroup.Use(ratelimiter.RateLimiter(rate.Every(5*time.Second), 2, 10*time.Minute))
DeptEvery == 5
DeptBurst == 2
DeptTTL == 600

\* userGroup.Use(ratelimiter.RateLimiter(rate.Every(1*time.Second), 10, 15*time.Minute))
UserEvery == 1
UserBurst == 10
UserTTL == 900

\* dataRedisGroup.Use(ratelimiter.RateLimiter(rate.Every(3*time.Second), 5, 10*time.Minute))
DataRedisEvery == 3
DataRedisBurst == 5
DataRedisTTL == 600

\* The route groups of SetupRouter whose requests and cleanup goroutines the
\* model follows.
Groups == {"auth", "departments"}

\* A router that gives each group the other group's (rate, burst,
\* expireAfter).
LimiterConfigSwapped(g) ==
  IF g = "auth"
    THEN [every |-> DeptEvery, burst |-> DeptBurst, expireAfter |-> DeptTTL]
    ELSE [every |-> AuthEvery, burst |-> AuthBurst, expireAfter |-> AuthTTL]

\* The (rate, burst, expireAfter) each group passes to RateLimiter.
LimiterConfig(g) ==
  CASE g = "auth" ->
         [every |-> AuthEvery, burst |-> AuthBurst, expireAfter |-> AuthTTL]
    [] g = "departments" ->
         [every |-> DeptEvery, burst |-> DeptBurst, expireAfter |-> DeptTTL]
    [] g = "users" ->
         [every |-> UserEvery, burst |-> UserBurst, expireAfter |-> UserTTL]
    [] g = "dataredis" ->
         [every |-> DataRedisEvery, burst |-> DataRedisBurst,
          expireAfter |-> DataRedisTTL]

\* What the Authorization header of a request carries (field jwt): no
\* header at all, a value that does not start with "Bearer ", "Bearer " and
\* nothing after it, a token that has expired, a token whose signature does
\* not verify, or a valid token.
HeaderKinds == {"none", "badprefix", "empty", "expired", "invalid", "valid"}

\* The requests the clients send: (client address, method, URL path, and
\* what the Authorization header carries).
Requests ==
  { [ip |-> "10.0.0.1", method |-> "POST", path |-> "/auth/login", jwt |-> "none"],
    [ip |-> "10.0.0.1", method |-> "GET", path |-> "/api/v1/departments", jwt |-> "valid"],
    [ip |-> "10.0.0.1", method |-> "GET", path |-> "/api/v1/departments", jwt |-> "none"],
    [ip |-> "10.0.0.1", method |-> "GET", path |-> "/api/v1/departments", jwt |-> "expired"],
    [ip |-> "10.0.0.1", method |-> "GET", path |-> "/api/v1/departments", jwt |-> "invalid"] }

\* The values of the path parameters :id and :key in the requests.
PathParams == {"1", "2", "1:2", "d001", "D001", "d002", "d9", "access_token:admin"}

\* The paths under a group's prefix that match "/:id" or "/<kind>/:key".
Under(prefix) == {prefix \o "/" \o x : x \in PathParams}

\* The route group whose handlers chain the router runs for a request:
\* authGroup (POST /login, /refresh-token), and under /api/v1 deptGroup,
\* userGroup and dataRedisGroup with the methods they register; "none" for
\* a request that matches no route (r.NoRoute).
GroupOf(r) ==
  CASE r.method = "POST" /\ r.path \in {"/auth/login", "/auth/refresh-token"} -> "auth"
    [] r.method \in {"GET", "POST"} /\ r.path = "/api/v1/departments" -> "departments"
    [] r.method \in {"GET", "PUT", "DELETE"} /\ r.path \in Under("/api/v1/departments")
         -> "departments"
    [] r.method \in {"GET", "POST"} /\ r.path = "/api/v1/users" -> "users"
    [] r.method = "GET" /\ r.path \in Under("/api/v1/users") -> "users"
    [] r.method = "GET" /\ r.path \in Under("/api/v1/dataredis/string")
                                   \cup Under("/api/v1/dataredis/json") -> "dataredis"
    [] OTHER -> "none"

\* v1 := r.Group("/api/v1", authorization.JwtValidation()): the groups whose
\* chain runs JwtValidation before the rate limiter.
NeedsJwt(g) == g \in {"departments", "users", "dataredis"}

\* Requests that differ in one part of (address, method, path) at a time:
\* an IPv4 and an IPv6 client, two methods, the routes of the auth and the
\* department group, and ids of /departments/:id, one of them with a ':' in
\* it; and from one client a request to each other route that has a rate
\* limiter, a request that matches no route, and the Authorization headers
\* that are no bearer token.
KeyRequests ==
  { [ip |-> a, method |-> "POST", path |-> "/auth/login", jwt |-> "none"] :
      a \in {"10.0.0.1", "::1"} }
  \cup
  { [ip |-> a, method |-> x[1], path |-> x[2], jwt |-> "valid"] :
      a \in {"10.0.0.1", "::1"},
      x \in { <<"GET", "/api/v1/departments">>,
               <<"GET", "/api/v1/departments/1">>,
               <<"GET", "/api/v1/departments/2">>,
               <<"GET", "/api/v1/departments/1:2">>,
               <<"PUT", "/api/v1/departments/1">> } }
  \cup
  { [ip |-> "10.0.0.1", method |-> x[1], path |-> x[2], jwt |-> x[3]] :
      x \in { <<"POST", "/auth/refresh-token", "none">>,
               <<"GET", "/api/v1/users", "valid">>,
               <<"POST", "/api/v1/users", "valid">>,
               <<"GET", "/api/v1/users/1", "valid">>,
               <<"GET", "/api/v1/dataredis/string/access_token:admin", "valid">>,
               <<"GET", "/api/v1/dataredis/json/access_token:admin", "valid">>,
               <<"DELETE", "/api/v1/users/1", "valid">>,
               <<"GET", "/api/v1/users", "badprefix">>,
               <<"GET", "/api/v1/users", "empty">> } }

\* The route the router matches a request to (gin's FullPath), "" when it
\* matches none.
RouteOf(r) ==
  CASE GroupOf(r) = "none" -> ""
    [] r.path \in Under("/api/v1/departments") -> "/api/v1/departments/:id"
    [] r.path \in Under("/api/v1/users") -> "/api/v1/users/:id"
    [] r.path \in Under("/api/v1/dataredis/string") -> "/api/v1/dataredis/string/:key"
    [] r.path \in Under("/api/v1/dataredis/json") -> "/api/v1/dataredis/json/:key"
    [] OTHER -> r.path

\* ------------------------------------------------------------- responses

NoResponse == [status |-> 0, message |-> "", error |-> "", path |-> "", data |-> "null"]

\* A JSONError that leaves the request path out of the body.
JSONErrorNoPath(path, status, message, err) ==
  [status |-> status, message |-> message, error |-> err, path |-> "", data |-> "null"]

\* util.JSONError: the body of an error response (the timestamp is left out).
JSONError(path, status, message, err) ==
  [status |-> status, message |-> message, error |-> err, path |-> path, data |-> "null"]

\* util.JSONSuccess: the body of a success response (the timestamp is left out).
JSONSuccess(path, status, message, data) ==
  [status |-> status, message |-> message, error |-> "", path |-> path, data |-> data]

\* -------------------------------------------------------- rate.Limiter

\* rate.NewLimiter(r, b): a bucket that is full at its first use.
NewLimiter(every, burst) ==
  [every |-> every, burst |-> burst, tokens |-> burst * every, last |-> 0]

Min(a, b) == IF a < b THEN a ELSE b
Max(a, b) == IF a < b THEN b ELSE a

\* Limiter.advance: the balance at time t, refilled for the time elapsed
\* since the last admission (never negative) and capped at the burst.
Advance(l, t) == Min(l.burst * l.every, l.tokens + Max(0, t - l.last))

\* Limiter.Allow at time t: one token is taken when one is there; a denied
\* call leaves the bucket as it was.
AllowAt(l, t) ==
  LET tok == Advance(l, t)
  IN  IF tok >= l.every
        THEN [ok |-> TRUE, lim |-> [l EXCEPT !.tokens = tok - l.every, !.last = t]]
        ELSE [ok |-> FALSE, lim |-> l]

\* ------------------------------------------------------------------ state

VARIABLES
  now,        \* the monotonic clock, in seconds
  nticks,     \* clock advances so far
  nreq,       \* requests started so far
  visitors,   \* var visitors: key -> limiter (its index in heap)
  lastSeen,   \* var lastSeen: key -> time
  mu,         \* var mu sync.Mutex: "free", or who holds it
  heap,       \* the rate.Limiter objects ever allocated
  obs,        \* per limiter: what its callers have observed (history)
  pc,         \* per request goroutine: where it is
  req,        \* per request goroutine: the request it serves
  key,        \* per request goroutine: getVisitor's key
  tnow,       \* per request goroutine: getVisitor's now
  lim,        \* per request goroutine: the limiter getVisitor returned
  allowed,    \* per request goroutine: what limiter.Allow() returned
  resp,       \* per request goroutine: the response written so far
  downstream, \* per request goroutine: whether c.Next() ran the rest of the chain
  spc,        \* per cleanup goroutine: where it is
  wake,       \* per cleanup goroutine: when its time.Sleep ends
  visit,      \* per cleanup goroutine: the keys its range has still to reach
  began,      \* per cleanup goroutine: when its loop over lastSeen began
  stop,       \* whether the server has been asked to shut down
  userIDKey,  \* what is known of the key on refresh_tokens.user_id
  refreshTokens, \* the rows of table refresh_tokens
  redis,      \* Redis: key -> value and the time it expires
  users,      \* the rows of table users
  lastLogin,  \* column last_login of table users, per user id
  nuuid,      \* uuid.New() calls so far
  nauth,      \* login and refresh-token requests started so far
  apc,        \* per auth request goroutine: where it is
  areq,       \* per auth request goroutine: the request it serves
  aloc,       \* per auth request goroutine: the locals of the service call
  aresp,      \* per auth request goroutine: the response written
  departments, \* the rows of table department
  ndept,      \* department requests started so far
  dpc,        \* per department request goroutine: where it is
  dreq,       \* per department request goroutine: the request it serves
  dran,       \* per department request goroutine: whether the handler ran
  dloc,       \* per department request goroutine: the row its service call read
  dsvc,       \* per department request goroutine: what the service call returned
  dresp       \* per department request goroutine: the response written

vars == <<now, nticks, nreq, visitors, lastSeen, mu, heap, obs, pc, req, key,
          tnow, lim, allowed, resp, downstream, spc, wake, visit, began, stop,
          userIDKey,
          refreshTokens, redis, users, lastLogin, nuuid, nauth, apc, areq, aloc, aresp,
          departments, ndept, dpc, dreq, dran, dloc, dsvc, dresp>>

reqVars == <<pc, req, key, tnow, lim, allowed, resp, downstream>>
sweepVars == <<spc, wake, visit, began>>
regVars == <<visitors, lastSeen>>
\* The state of the auth service: PostgreSQL, Redis and its request goroutines.
authVars == <<refreshTokens, redis, users, lastLogin, nuuid, nauth, apc, areq, aloc, aresp>>
\* The state of the department routes: the table and its request goroutines.
deptVars == <<departments, ndept, dpc, dreq, dran, dloc, dsvc, dresp>>
\* The registry of package ratelimiter and its goroutines, the clock apart.
limiterVars == <<nreq, visitors, lastSeen, mu, heap, obs, reqVars, sweepVars>>
\* What no goroutine of package ratelimiter reads or writes.
outsideVars == <<stop, userIDKey, authVars, deptVars>>

NoRequest == [ip |-> "", method |-> "", path |-> "", jwt |-> ""]

Free == "free"
ReqHolder(p) == <<"request", p>>
SweepHolder(g) == <<"cleanup", g>>

EmptyMap == [k \in {} |-> 0]

\* A getVisitor that leaves the method out of its key.
MakeKeyNoMethod(r) == r.ip \o ":" \o r.path

\* A getVisitor that keys its registry by the client address alone.
MakeKeyIpOnly(r) == r.ip

\* key := fmt.Sprintf("%s:%s:%s", ip, method, path)
MakeKey(r) == r.ip \o ":" \o r.method \o ":" \o r.path

\* ------------------------------------------------- the department routes

\* Department{}: the zero value.
NoDepartment == [id |-> "", deptName |-> "", active |-> FALSE, createdBy |-> 0, updatedBy |-> 0]

\* Department.Equals(&Department{}): ID, DeptName and Active are compared.
IsEmptyDepartment(d) == d.id = "" /\ d.deptName = "" /\ d.active = FALSE

\* The rows import.sql puts into table department when the server starts
\* (DB_MIGRATE and DB_SEED are TRUE): d001 .. d010, active, made by user 1.
SeededNames ==
  [d001 |-> "Marketing", d002 |-> "Finance", d003 |-> "Human Resources",
   d004 |-> "Production", d005 |-> "Development", d006 |-> "Quality Management",
   d007 |-> "Sales", d008 |-> "Research", d009 |-> "Customer Service",
   d010 |-> "Information Technology"]
SeededDepartments ==
  { [id |-> i, deptName |-> SeededNames[i], active |-> TRUE, createdBy |-> 1,
     updatedBy |-> 1, deleted |-> FALSE] : i \in DOMAIN SeededNames }

\* The ids clients ask for (a seeded one under two spellings, a new one, one
\* that is too short) and the names they send (a new one, that of the
\* seeded d002, none, one that is too long).
DeptIDs == {"d001", "D001", "d011", "d9"}
\* A name of 41 characters.
LongName == "Department of Long Names and Even More!!!"
DeptNamesSent == {"HR", "Finance", "", LongName}

\* lower(?) of the SQL conditions, on the ids and names above and on the
\* user names clients log in with.
Lower(str) ==
  CASE str = "D001" -> "d001"
    [] str = "HR" -> "hr"
    [] str = "Marketing" -> "marketing"
    [] str = "Finance" -> "finance"
    [] str = "Human Resources" -> "human resources"
    [] str = "Production" -> "production"
    [] str = "Development" -> "development"
    [] str = "Quality Management" -> "quality management"
    [] str = "Sales" -> "sales"
    [] str = "Research" -> "research"
    [] str = "Customer Service" -> "customer service"
    [] str = "Information Technology" -> "information technology"
    [] str \in {"ADMIN", "Admin"} -> "admin"
    [] OTHER -> str

\* ORDER BY id ASC, on the ids above.
IdRank(id) ==
  CASE id = "D001" -> 0
    [] id = "d001" -> 1
    [] id = "d002" -> 2
    [] id = "d003" -> 3
    [] id = "d004" -> 4
    [] id = "d005" -> 5
    [] id = "d006" -> 6
    [] id = "d007" -> 7
    [] id = "d008" -> 8
    [] id = "d009" -> 9
    [] id = "d010" -> 10
    [] OTHER -> 11

\* The roles a JWT may carry (claim "roles"), in the order of the claim.
RoleLists == { << >>, <<"ROLE_USER">>, <<"ROLE_ADMIN">>,
               <<"ROLE_USER", "ROLE_ADMIN">>, <<"ROLE_GUEST">> }

\* The department routes of SetupRouter.
DeptRoutes == {"GetAllDepartments", "GetDepartmentByID", "CreateDepartment",
               "UpdateDepartment", "DeleteDepartment"}

\* A router that lets ROLE_USER create, update and delete.
AllowedRolesAll(route) == <<"ROLE_ADMIN", "ROLE_USER">>

\* deptGroup.GET(..., RoleBasedAccessControl("ROLE_ADMIN", "ROLE_USER"), ...),
\* deptGroup.POST / PUT / DELETE(..., RoleBasedAccessControl("ROLE_ADMIN"), ...)
AllowedRoles(route) ==
  IF route \in {"GetAllDepartments", "GetDepartmentByID"}
    THEN <<"ROLE_ADMIN", "ROLE_USER">>
    ELSE <<"ROLE_ADMIN">>

\* c.Request.URL.Path of a request to a department route.
DeptPath(route, id) ==
  IF route \in {"GetAllDepartments", "CreateDepartment"}
    THEN "/api/v1/departments"
    ELSE "/api/v1/departments/" \o id

\* RoleBasedAccessControl(allowedRoles...) for a request whose context holds
\* the metadata JwtValidation injected: NoResponse when it calls c.Next(),
\* the response it aborts with otherwise.
RoleBasedAccessControl(allowedRoles, userRoles, path) ==
  IF Len(allowedRoles) = 0 THEN NoResponse
  ELSE IF Len(userRoles) = 0
    THEN JSONError(path, 403, "No roles found", "User does not have any roles")
  ELSE IF \E i \in 1..Len(userRoles), j \in 1..Len(allowedRoles) :
            userRoles[i] = allowedRoles[j]
    THEN NoResponse
  ELSE JSONError(path, 403, "Access denied", "User does not have the required role")

\* The rows a query sees: gorm leaves out the soft-deleted ones.
Live(rows) == {r \in rows : ~r.deleted}

\* A row as the Department value the repository returns.
AsDepartment(r) ==
  [id |-> r.id, deptName |-> r.deptName, active |-> r.active,
   createdBy |-> r.createdBy, updatedBy |-> r.updatedBy]

\* A Department value as a row of the table.
AsRow(d) ==
  [id |-> d.id, deptName |-> d.deptName, active |-> d.active,
   createdBy |-> d.createdBy, updatedBy |-> d.updatedBy, deleted |-> FALSE]

\* What a service or repository call returns: the value and the error ("" for
\* nil; validation tells a validator.ValidationErrors from other errors).
Returned(v) == [value |-> v, err |-> "", validation |-> FALSE]
Failed(v, e) == [value |-> v, err |-> e, validation |-> FALSE]
Invalid(v) == [value |-> v, err |-> "validation failed", validation |-> TRUE]
NoResult == Failed(NoDepartment, "")

\* departmentRepository.GetDepartmentByID: First(&department, "lower(id) = lower(?)").
GetDepartmentByID(rows, id) ==
  IF \E r \in Live(rows) : Lower(r.id) = Lower(id)
    THEN Returned(AsDepartment(CHOOSE r \in Live(rows) : Lower(r.id) = Lower(id)))
    ELSE Failed(NoDepartment, "department with the given ID not found")

\* departmentRepository.GetDepartmentByName: First(&department, "lower(dept_name) = lower(?)").
GetDepartmentByName(rows, name) ==
  IF \E r \in Live(rows) : Lower(r.deptName) = Lower(name)
    THEN Returned(AsDepartment(CHOOSE r \in Live(rows) : Lower(r.deptName) = Lower(name)))
    ELSE Failed(NoDepartment, "department with the given name not found")

\* departmentRepository.GetAllDepartments: Order("id ASC").Find(&departments).
RECURSIVE SortedDepartments(_)
SortedDepartments(rows) ==
  IF rows = {} THEN << >>
  ELSE LET first == CHOOSE r \in rows : \A q \in rows : IdRank(r.id) <= IdRank(q.id)
       IN  <<AsDepartment(first)>> \o SortedDepartments(rows \ {first})

\* Department.Validate: ID required, len=4; DeptName required, max=40.
ValidDepartment(d) == Len(d.id) = 4 /\ d.deptName # "" /\ Len(d.deptName) <= 40

\* GetSampleDepartment / GetSampleDepartments of the handler tests.
SampleDepartment == [id |-> "d001", deptName |-> "HR", active |-> TRUE, createdBy |-> 1, updatedBy |-> 1]
SampleDepartments == <<SampleDepartment,
                       [id |-> "d002", deptName |-> "IT", active |-> TRUE, createdBy |-> 1, updatedBy |-> 1]>>

\* mockService of the handler tests.
MockService(route) ==
  IF route = "GetAllDepartments" THEN Returned(SampleDepartments)
  ELSE IF route = "DeleteDepartment" THEN Returned(TRUE)
  ELSE Returned(SampleDepartment)

\* util.JSONErrorMap: the body of a validation error response.
JSONErrorMap(path, status, message) ==
  [status |-> status, message |-> message, error |-> "validation failed",
   path |-> path, data |-> "null"]

\* Handlers that answer 200 where CreateDepartment answers 201.
DepartmentHandlerAll200(route, path, res) ==
  IF res.err # "" THEN JSONError(path, 500, "Failed", res.err)
  ELSE JSONSuccess(path, 200, "OK", res.value)

\* DepartmentHandler.GetAllDepartments, GetDepartmentByID, CreateDepartment,
\* UpdateDepartment, DeleteDepartment: the response to what the service
\* returned.
DepartmentHandler(route, path, res) ==
  IF route = "GetAllDepartments" THEN
    IF res.err # "" THEN JSONError(path, 500, "Failed to retrieve departments", res.err)
    ELSE JSONSuccess(path, 200, "All Departments retrieved successfully", res.value)
  ELSE IF route = "GetDepartmentByID" THEN
    IF res.err # "" THEN JSONError(path, 500, "Failed to retrieve department", res.err)
    ELSE IF IsEmptyDepartment(res.value)
      THEN JSONError(path, 404, "Department not found", "No department found with the given ID")
    ELSE JSONSuccess(path, 200, "Department retrieved successfully", res.value)
  ELSE IF route = "CreateDepartment" THEN
    IF res.err # "" /\ res.validation THEN JSONErrorMap(path, 400, "Failed to create department")
    ELSE IF res.err # "" THEN JSONError(path, 500, "Failed to create department", res.err)
    ELSE JSONSuccess(path, 201, "Department created successfully", res.value)
  ELSE IF route = "UpdateDepartment" THEN
    IF res.err # "" /\ res.validation THEN JSONErrorMap(path, 400, "Failed to update department")
    ELSE IF res.err # "" THEN JSONError(path, 500, "Failed to update department", res.err)
    ELSE IF IsEmptyDepartment(res.value)
      THEN JSONError(path, 404, "Department not found", "No department found with the given ID")
    ELSE JSONSuccess(path, 200, "Department updated successfully", res.value)
  ELSE
    IF res.err # "" THEN JSONError(path, 500, "Failed to delete department", res.err)
    ELSE IF ~res.value
      THEN JSONError(path, 404, "Department not found", "No department found with the given ID")
    ELSE JSONSuccess(path, 200, "Department deleted successfully", "null")

NoDeptRequest == [router |-> "", route |-> "", id |-> "", body |-> NoDepartment,
                  roles |-> << >>, userID |-> 0]

\* ------------------------------------------------------- the auth service

\* JWT_REFRESH_TOKEN_EXPIRATION_HOUR=720 of the README's .env, in seconds
\* (GetRefreshTokenExpiration: now.Add(time.Hour * expHour)).
JWTRefreshTokenExpiration == 2592000
\* JWT_EXPIRATION_HOUR=48, in seconds (GetJWTExpiration).
JWTExpiration == 172800
\* ACCESS_TOKEN_TTL_MINUTES=60, in seconds (LoadEnv: AccessTokenTTL).
AccessTokenTTL == 3600
\* TOKEN_TYPE (LoadEnv: TokenType).
TokenType == "Bearer"

\* The amounts (seconds) by which the clock advances in one step of SpecAuth:
\* within one lifetime of a refresh token, exactly one lifetime, and more.
AuthTickSteps == {1, JWTRefreshTokenExpiration, JWTRefreshTokenExpiration + 1}

\* golang.org/x/crypto/bcrypt: the hash string GenerateFromPassword makes of
\* a password, and CompareHashAndPassword(hashed, password) returning nil.
\* A text that is no bcrypt hash matches no password.
Hash(pw) == "$2a$10$" \o pw
CompareHashAndPassword(hashed, pw) == hashed = Hash(pw)

\* The rows import.sql seeds: admin and userone, both enabled.  Column
\* password holds the bcrypt hash of P@ssw0rd.
SeededUsers ==
  { [id |-> 1, userName |-> "admin", password |-> Hash("P@ssw0rd"), isEnabled |-> TRUE,
     isAccountNonExpired |-> TRUE, isAccountNonLocked |-> TRUE,
     isCredentialsNonExpired |-> TRUE, isDeleted |-> FALSE],
    [id |-> 2, userName |-> "userone", password |-> Hash("P@ssw0rd"), isEnabled |-> TRUE,
     isAccountNonExpired |-> TRUE, isAccountNonLocked |-> TRUE,
     isCredentialsNonExpired |-> TRUE, isDeleted |-> FALSE] }

\* The user names and passwords POST /api/v1/users is called with: a
\* password in clear, and one the client has hashed itself.
CreateNames == {"newuser"}
CreatePasswords == {"P@ssw0rd", Hash("P@ssw0rd")}

\* The row userService.CreateUser inserts for a body: enabled, last_login
\* NULL, and column password the text of the body as it was sent.
NewUser(n, pw) ==
  [id |-> 3, userName |-> n, password |-> pw, isEnabled |-> TRUE,
   isAccountNonExpired |-> TRUE, isAccountNonLocked |-> TRUE,
   isCredentialsNonExpired |-> TRUE, isDeleted |-> FALSE]

\* The rows table users can hold.
Users == SeededUsers \cup {NewUser(n, pw) : n \in CreateNames, pw \in CreatePasswords}

NoUser == [id |-> 0, userName |-> "", password |-> "", isEnabled |-> FALSE,
           isAccountNonExpired |-> FALSE, isAccountNonLocked |-> FALSE,
           isCredentialsNonExpired |-> FALSE, isDeleted |-> FALSE]

\* User.LastLogin == nil: column last_login is NULL.
NeverLoggedIn == -1

\* The ids of the seeded rows, and their column last_login: a time in the
\* past.
SeededIDs == {1, 2}
SeededLastLogin == 0

\* userRepository.GetUserByUserName: First(&user, "lower(username) = lower(?)").
GetUserByUserName(n) ==
  IF \E u \in users : Lower(u.userName) = Lower(n)
    THEN CHOOSE u \in users : Lower(u.userName) = Lower(n)
    ELSE NoUser

\* userRepository.GetUserByID: First(&user, "id = ?").
GetUserByID(i) ==
  IF \E u \in users : u.id = i THEN CHOOSE u \in users : u.id = i ELSE NoUser

\* The e-mail address the body of POST /api/v1/users carries for a user name.
EmailOf(n) == n \o "@example.com"

\* userRepository.GetUserByEmail: First(&user, "lower(email) = lower(?)").
GetUserByEmail(e) ==
  IF \E u \in users : Lower(EmailOf(u.userName)) = Lower(e)
    THEN CHOOSE u \in users : Lower(EmailOf(u.userName)) = Lower(e)
    ELSE NoUser

\* The names gorm's AutoMigrate gives the constraint of a column tagged
\* "unique", by the version of gorm the build resolves.
UniqueNames(table, column) ==
  {"uni_" \o table \o "_" \o column, table \o "_" \o column \o "_key"}

\* The error of PostgreSQL for a row that breaks a primary key or a unique
\* constraint.
DuplicateKey(constraint) ==
  "ERROR: duplicate key value violates unique constraint \"" \o constraint
    \o "\" (SQLSTATE 23505)"

\* The user names and passwords clients log in with.
LoginNames == {"admin", "ADMIN", "userone", "newuser", "ghost"}
LoginPasswords == {"P@ssw0rd", "Passw0rd!"}

\* The error authService.Login returns before it generates any token, ""
\* when there is none.
LoginError(n, pw) ==
  LET u == GetUserByUserName(n)
  IN  IF u = NoUser THEN "user with the given username not found"
      ELSE IF ~u.isEnabled THEN "user is not enabled"
      ELSE IF ~u.isAccountNonExpired THEN "user account is expired"
      ELSE IF ~u.isAccountNonLocked THEN "user account is locked"
      ELSE IF ~u.isCredentialsNonExpired THEN "user credentials are expired"
      ELSE IF u.isDeleted THEN "user account is deleted"
      ELSE IF ~CompareHashAndPassword(u.password, pw) THEN "invalid password"
      ELSE ""

\* GenerateJWTToken: the claims that make the signed string (sub, iat, exp);
\* two tokens for one user issued within one second are the same string.
GenerateJWTToken(u, t) == [sub |-> u.userName, iat |-> t, exp |-> t + JWTExpiration]

\* GetExpirationDateFromToken: time.Unix(exp, 0).Format(time.RFC3339), kept
\* as the second it denotes.
GetExpirationDateFromToken(jwt) == jwt.exp

\* GetRefreshTokenExpiration(now).
GetRefreshTokenExpiration(t) == t + JWTRefreshTokenExpiration

\* refreshTokenService.VerifyExpirationDate: !exp.IsZero() && !time.Now().After(exp)
VerifyExpirationDate(exp, t) == exp # 0 /\ ~(t > exp)

NoRow == [token |-> 0, userID |-> 0, expiryDate |-> 0]

\* refreshTokenRepository.GetRefreshTokenByToken: First(&refreshToken, "token = ?").
GetRefreshTokenByToken(rows, tok) ==
  IF \E r \in rows : r.token = tok
    THEN CHOOSE r \in rows : r.token = tok
    ELSE NoRow

\* refreshTokenRepository.GetRefreshTokenByUserID: First(&refreshToken, "user_id = ?").
GetRefreshTokenByUserID(rows, uid) ==
  IF \E r \in rows : r.userID = uid
    THEN CHOOSE r \in rows : r.userID = uid
    ELSE NoRow

\* A CreateRefreshToken that leaves the user's old rows in the table.
RemoveRefreshTokenNothing(rows, uid) == rows

\* refreshTokenRepository.RemoveRefreshTokenByUserID: Where("user_id = ?").Delete.
RemoveRefreshTokenByUserID(rows, uid) == {r \in rows : r.userID # uid}

\* redisKey := fmt.Sprintf("access_token:%s", userName)
RedisKey(n) == "access_token:" \o n
RedisKeys == {RedisKey(u.userName) : u \in Users}

NoTokens == [accessToken |-> [sub |-> "", iat |-> 0, exp |-> 0], refreshToken |-> 0,
             expirationDate |-> 0, tokenType |-> ""]
NoValue == [value |-> NoTokens, expires |-> 0]

\* LoginResponse / RefreshTokenResponse{AccessToken, RefreshToken, ExpirationDate, TokenType}
TokenResponse(jwt, rt) ==
  [accessToken |-> jwt, refreshToken |-> rt,
   expirationDate |-> GetExpirationDateFromToken(jwt), tokenType |-> TokenType]

\* redisutil.SetJSON(ctx, client, key, value, ttl): client.Set with a time to live.
SetJSON(store, k, v, ttl, t) == [store EXCEPT ![k] = [value |-> v, expires |-> t + ttl]]

\* redisutil.GetJSON at time t: the value of a key that has not expired.
GetJSON(store, k, t) == IF store[k].expires > t THEN store[k].value ELSE NoTokens

NoAuthRequest == [op |-> "", username |-> "", password |-> "", refreshToken |-> 0]
\* What is stored for a user: the rows of refresh_tokens, column last_login
\* and the value under the user's Redis key.
NoUserState == [rows |-> {}, lastLogin |-> NeverLoggedIn, redis |-> NoValue]

\* The locals of a call, with the rows its transaction has removed and not
\* yet committed (removed) and those it waits for (waiting), the row it is
\* about to insert (refreshToken), and (before) what was stored for its user
\* when the call began.
NoLocals == [user |-> NoUser, jwt |-> NoTokens.accessToken, presented |-> NoRow,
             verified |-> FALSE, existing |-> NoRow, removed |-> {}, waiting |-> {},
             refreshToken |-> NoRow, created |-> NoRow, before |-> NoUserState,
             at |-> 0]

\* The errors client.Set may return: none, or the error of a Redis server
\* that cannot be reached.
SetErrors == {"", "dial tcp: connection refused"}

Init ==
  /\ now = 0
  /\ nticks = 0
  /\ nreq = 0
  /\ visitors = EmptyMap
  /\ lastSeen = EmptyMap
  /\ mu = <<Free, 0>>
  /\ heap = << >>
  /\ obs = << >>
  /\ pc = [p \in Procs |-> "idle"]
  /\ req = [p \in Procs |-> NoRequest]
  /\ key = [p \in Procs |-> ""]
  /\ tnow = [p \in Procs |-> 0]
  /\ lim = [p \in Procs |-> 0]
  /\ allowed = [p \in Procs |-> FALSE]
  /\ resp = [p \in Procs |-> NoResponse]
  /\ downstream = [p \in Procs |-> FALSE]
  /\ spc = [g \in Groups |-> "sleep"]
  /\ wake = [g \in Groups |-> SleepInterval]
  /\ visit = [g \in Groups |-> {}]
  /\ began = [g \in Groups |-> 0]
  /\ stop = FALSE
  /\ userIDKey = "unknown"
  /\ refreshTokens = {}
  /\ redis = [k \in RedisKeys |-> NoValue]
  /\ users = SeededUsers
  /\ lastLogin = [i \in SeededIDs |-> SeededLastLogin]
  /\ nuuid = 0
  /\ nauth = 0
  /\ apc = [p \in Procs |-> "idle"]
  /\ areq = [p \in Procs |-> NoAuthRequest]
  /\ aloc = [p \in Procs |-> NoLocals]
  /\ aresp = [p \in Procs |-> NoResponse]
  /\ departments = SeededDepartments
  /\ ndept = 0
  /\ dpc = [p \in Procs |-> "idle"]
  /\ dreq = [p \in Procs |-> NoDeptRequest]
  /\ dran = [p \in Procs |-> FALSE]
  /\ dloc = [p \in Procs |-> NoDepartment]
  /\ dsvc = [p \in Procs |-> NoResult]
  /\ dresp = [p \in Procs |-> NoResponse]

\* ------------------------------------------------------------ the clock

\* Time passes: between any two steps of any goroutine.
Tick(d) ==
  /\ now' = now + d
  /\ nticks' = nticks + 1
  /\ UNCHANGED <<nreq, visitors, lastSeen, mu, heap, obs, reqVars, sweepVars>>
  /\ UNCHANGED outsideVars

\* The cleanup loops that are inside time.Sleep(time.Minute) with time left
\* to sleep.
Sleeping == {g \in Groups : spc[g] = "sleep" /\ wake[g] > now}

\* The time by which the registry is empty for good however the LiveMaxReqs
\* requests and the LiveMaxTicks clock advances of a behaviour fall: each
\* entry is gone at the first pass after the longest expireAfter.
LiveHorizon ==
  (LiveMaxReqs + LiveMaxTicks + 1) * (DeptTTL + 2 * SleepInterval)

\* Time passes after the last request was served: up to the moment the next
\* sleeping cleanup loop wakes.  Followed while the registry holds an entry;
\* the passes over an empty registry change nothing.
Pass ==
  /\ nreq = LiveMaxReqs
  /\ \A p \in Procs : pc[p] = "idle"
  /\ DOMAIN lastSeen # {}
  /\ now < LiveHorizon
  /\ Sleeping # {}
  /\ \E g \in Sleeping :
       /\ \A h \in Sleeping : wake[g] <= wake[h]
       /\ now' = wake[g]
  /\ UNCHANGED <<nticks, nreq, visitors, lastSeen, mu, heap, obs, reqVars, sweepVars>>
  /\ UNCHANGED outsideVars

\* ------------------------------------------------- what callers observe

\* The history kept for a limiter: the key and the route group it was made
\* for, when (born), how many requests for its key were inside getVisitor
\* then (racers), and whether a sweep has removed it from the registry since
\* (evicted); and, for the instant t of the latest calls of Allow on it: the
\* time since the call before (quiet, -1 when there was none), whether the
\* bucket was exhausted after that call (exh), the time since the last
\* admission (el, -1 when there was none), the balance that admission left
\* (f0), the balance the first call of the instant found (avail), how many
\* requests the middleware let through (ok) and rejected (no) in the
\* instant, and the largest number of requests that were at limiter.Allow()
\* together (conc).
NewObs(k, g, t, racers) ==
  [key |-> k, group |-> g, born |-> t, racers |-> racers, evicted |-> FALSE,
   t |-> -1, admits |-> 0, quiet |-> -1, exh |-> FALSE,
   el |-> -1, f0 |-> 0, avail |-> 0, ok |-> 0, no |-> 0, conc |-> 0]

ObsInstant(o, l, t) ==
  IF o.t = t THEN o
  ELSE [o EXCEPT !.t = t,
                 !.quiet = IF o.t = -1 THEN -1 ELSE t - o.t,
                 !.exh = (o.t # -1 /\ Advance(l, o.t) < l.every),
                 !.el = IF o.admits = 0 THEN -1 ELSE t - l.last,
                 !.f0 = l.tokens,
                 !.avail = Advance(l, t),
                 !.ok = 0, !.no = 0, !.conc = 0]

ObsAllow(o, l, t, passed, together) ==
  LET i == ObsInstant(o, l, t)
  IN  [i EXCEPT !.ok = IF passed THEN @ + 1 ELSE @,
                !.no = IF passed THEN @ ELSE @ + 1,
                !.admits = IF passed THEN @ + 1 ELSE @,
                !.conc = Max(@, together)]

\* --------------------------------------------------- a request goroutine

\* JwtValidation: the response it writes before c.Abort(), NoResponse when
\* it calls c.Next().  The error of an expired token and of a signature
\* that does not verify are the texts of jwt.Parse.
JwtValidation(r) ==
  CASE r.jwt = "none" ->
         JSONError(r.path, 401, "No token provided", "Authorization header is missing")
    [] r.jwt = "badprefix" ->
         JSONError(r.path, 401, "Invalid token format",
                   "Token must start with '" \o TokenType \o " '")
    [] r.jwt = "empty" ->
         JSONError(r.path, 401, "Invalid token format", "Token string is empty")
    [] r.jwt = "expired" ->
         JSONError(r.path, 401, "Invalid token",
                   "token has invalid claims: token is expired")
    [] r.jwt = "invalid" ->
         JSONError(r.path, 401, "Invalid token",
                   "token signature is invalid: crypto/rsa: verification error")
    [] OTHER -> NoResponse

\* JwtValidation aborts the chain of the request.
JwtRejects(r) == NeedsJwt(GroupOf(r)) /\ JwtValidation(r).status # 0

\* r.NoRoute: what a request that matches no route is answered.
NoRoute(r) ==
  JSONError(r.path, 404, "Not Found", "The requested resource was not found")

\* A request arrives and runs the chain of its route up to the rate limiter;
\* there getVisitor reads the clock and builds its key.
StartWith(p, rs) ==
  /\ pc[p] = "idle"
  /\ \A q \in Procs : q < p => pc[q] # "idle"
  /\ \E r \in rs :
       /\ req' = [req EXCEPT ![p] = r]
       /\ IF GroupOf(r) = "none" \/ JwtRejects(r)
            THEN /\ resp' = [resp EXCEPT ![p] =
                       IF GroupOf(r) = "none" THEN NoRoute(r) ELSE JwtValidation(r)]
                 /\ pc' = [pc EXCEPT ![p] = "done"]
                 /\ UNCHANGED <<key, tnow>>
            ELSE /\ resp' = [resp EXCEPT ![p] = NoResponse]
                 /\ tnow' = [tnow EXCEPT ![p] = now]
                 /\ key' = [key EXCEPT ![p] = MakeKey(r)]
                 /\ pc' = [pc EXCEPT ![p] = "lock"]
  /\ nreq' = nreq + 1
  /\ lim' = [lim EXCEPT ![p] = 0]
  /\ allowed' = [allowed EXCEPT ![p] = FALSE]
  /\ downstream' = [downstream EXCEPT ![p] = FALSE]
  /\ UNCHANGED <<now, nticks, visitors, lastSeen, mu, heap, obs, sweepVars>>
  /\ UNCHANGED outsideVars

\* A request of the clients the model follows through time.
Start(p) == StartWith(p, Requests)

\* limiter, exists := visitors[key]
Exists(k) == k \in DOMAIN visitors

\* A getVisitor that does not wait for the mutex.
MuLockNoWait(holder) == mu' = holder

\* mu.Lock(): the caller waits until the mutex is free and takes it.
MuLock(holder) ==
  /\ mu = <<Free, 0>>
  /\ mu' = holder

\* getVisitor takes the mutex and looks its key up.
Lock(p) ==
  /\ pc[p] = "lock"
  /\ MuLock(ReqHolder(p))
  /\ pc' = [pc EXCEPT ![p] = IF Exists(key[p]) THEN "found" ELSE "create"]
  /\ UNCHANGED <<now, nticks, nreq, visitors, lastSeen, heap, obs,
                 req, key, tnow, lim, allowed, resp, downstream, sweepVars>>
  /\ UNCHANGED outsideVars

\* A getVisitor that passes a burst of 1 whatever the group configured.
MakeLimiterBurstOne(g) == NewLimiter(LimiterConfig(g).every, 1)

\* A getVisitor that passes half the rate the group configured.
MakeLimiterHalfRate(g) ==
  NewLimiter(2 * LimiterConfig(g).every, LimiterConfig(g).burst)

\* A getVisitor that passes twice the burst the group configured.
MakeLimiterDoubleBurst(g) ==
  NewLimiter(LimiterConfig(g).every, 2 * LimiterConfig(g).burst)

\* limiter = rate.NewLimiter(r, b), with the (rate, burst) the route group
\* g gave to RateLimiter.
MakeLimiter(g) == NewLimiter(LimiterConfig(g).every, LimiterConfig(g).burst)

\* The requests for key k that are inside getVisitor.
Racers(k) == {q \in Procs : key[q] = k /\ pc[q] \in {"lock", "found", "create"}}

\* The rest of getVisitor's critical section: for a key that was not there,
\* a limiter is made and stored; lastSeen[key] = now; mu.Unlock(); the
\* limiter is returned.
Unlock(p) ==
  /\ pc[p] \in {"found", "create"}
  /\ LET k == key[p]
         g == GroupOf(req[p])
     IN  IF pc[p] = "found"
           THEN /\ lim' = [lim EXCEPT ![p] = visitors[k]]
                /\ UNCHANGED <<visitors, heap, obs>>
           ELSE /\ heap' = Append(heap, MakeLimiter(g))
                /\ obs' = Append(obs, NewObs(k, g, now, Cardinality(Racers(k))))
                /\ visitors' = [x \in DOMAIN visitors \cup {k} |->
                                  IF x = k THEN Len(heap) + 1 ELSE visitors[x]]
                /\ lim' = [lim EXCEPT ![p] = Len(heap) + 1]
  /\ lastSeen' = [x \in DOMAIN lastSeen \cup {key[p]} |->
                    IF x = key[p] THEN tnow[p] ELSE lastSeen[x]]
  /\ mu' = <<Free, 0>>
  /\ pc' = [pc EXCEPT ![p] = "allow"]
  /\ UNCHANGED <<now, nticks, nreq, req, key, tnow, allowed, resp, downstream,
                 sweepVars>>
  /\ UNCHANGED outsideVars

\* The middleware's branch on limiter.Allow(): 429 and c.Abort(), or c.Next().
RateLimiterBranch(ok, path) ==
  IF ~ok
    THEN [resp |-> JSONError(path, 429, "Rate limit exceeded",
                     "You have exceeded the rate limit. Please try again later."),
          next |-> FALSE]
    ELSE [resp |-> NoResponse, next |-> TRUE]

\* limiter.Allow() on the limiter getVisitor returned, and what the
\* middleware does with the answer.
Allow(p) ==
  /\ pc[p] = "allow"
  /\ LET id == lim[p]
         a == AllowAt(heap[id], now)
         b == RateLimiterBranch(a.ok, req[p].path)
         together == Cardinality({q \in Procs : pc[q] = "allow" /\ lim[q] = id})
     IN  /\ heap' = [heap EXCEPT ![id] = a.lim]
         /\ obs' = [obs EXCEPT ![id] = ObsAllow(@, heap[id], now, b.next, together)]
         /\ allowed' = [allowed EXCEPT ![p] = a.ok]
         /\ resp' = [resp EXCEPT ![p] = b.resp]
         /\ downstream' = [downstream EXCEPT ![p] = b.next]
  /\ pc' = [pc EXCEPT ![p] = "done"]
  /\ UNCHANGED <<now, nticks, nreq, visitors, lastSeen, mu, req, key, tnow,
                 lim, sweepVars>>
  /\ UNCHANGED outsideVars

\* The response is on the wire and the goroutine ends; its slot is free for
\* the next request.
Finish(p) ==
  /\ pc[p] = "done"
  /\ pc' = [pc EXCEPT ![p] = "idle"]
  /\ req' = [req EXCEPT ![p] = NoRequest]
  /\ key' = [key EXCEPT ![p] = ""]
  /\ tnow' = [tnow EXCEPT ![p] = 0]
  /\ lim' = [lim EXCEPT ![p] = 0]
  /\ allowed' = [allowed EXCEPT ![p] = FALSE]
  /\ resp' = [resp EXCEPT ![p] = NoResponse]
  /\ downstream' = [downstream EXCEPT ![p] = FALSE]
  /\ UNCHANGED <<now, nticks, nreq, visitors, lastSeen, mu, heap, obs, sweepVars>>
  /\ UNCHANGED outsideVars

\* ------------------------------------------------ the cleanup goroutines

\* time.Sleep(time.Minute) has returned and the loop takes the mutex.
SweepLock(g) ==
  /\ spc[g] = "sleep"
  /\ now >= wake[g]
  /\ MuLock(SweepHolder(g))
  /\ spc' = [spc EXCEPT ![g] = "sweep"]
  /\ began' = [began EXCEPT ![g] = now]
  /\ UNCHANGED <<now, nticks, nreq, visitors, lastSeen, heap, obs, reqVars, wake, visit>>
  /\ UNCHANGED outsideVars

\* A cleanup loop that lets an entry live twice its expireAfter.
ExpiredTwice(g) ==
  {k \in DOMAIN lastSeen : now - lastSeen[k] > 2 * LimiterConfig(g).expireAfter}

\* time.Since(t) > expireAfter, for the expireAfter of the group whose
\* RateLimiter call started this goroutine.
Expired(g) ==
  {k \in DOMAIN lastSeen : now - lastSeen[k] > LimiterConfig(g).expireAfter}

\* The sets of keys one loop over lastSeen may delete.  The range reaches
\* each key once, in an order the runtime picks, and judges it by
\* time.Since(t) at the moment it is reached, between the moment the loop
\* began and now: a key that had expired when the loop began is deleted, a
\* key that has not expired now is kept, and any other key is deleted or
\* kept by the moment of its turn.
Judged(g) ==
  {gone \in SUBSET Expired(g) :
     \A k \in Expired(g) :
       began[g] - lastSeen[k] > LimiterConfig(g).expireAfter => k \in gone}

\* A cleanup goroutine that makes one pass and returns instead of looping.
SweepOnce(g) ==
  /\ spc[g] = "sweep"
  /\ \E gone \in Judged(g) :
       /\ visitors' = [k \in DOMAIN visitors \ gone |-> visitors[k]]
       /\ lastSeen' = [k \in DOMAIN lastSeen \ gone |-> lastSeen[k]]
       /\ obs' = [i \in DOMAIN obs |->
                    IF \E k \in DOMAIN visitors \cap gone : visitors[k] = i
                      THEN [obs[i] EXCEPT !.evicted = TRUE] ELSE obs[i]]
  /\ mu' = <<Free, 0>>
  /\ spc' = [spc EXCEPT ![g] = "returned"]
  /\ began' = [began EXCEPT ![g] = 0]
  /\ UNCHANGED <<now, nticks, nreq, heap, reqVars, wake, visit>>
  /\ UNCHANGED outsideVars

\* The loop over lastSeen: delete(visitors, key); delete(lastSeen, key);
\* then mu.Unlock() and the next time.Sleep(time.Minute).
Sweep(g) ==
  /\ spc[g] = "sweep"
  /\ \E gone \in Judged(g) :
       /\ visitors' = [k \in DOMAIN visitors \ gone |-> visitors[k]]
       /\ lastSeen' = [k \in DOMAIN lastSeen \ gone |-> lastSeen[k]]
       /\ obs' = [i \in DOMAIN obs |->
                    IF \E k \in DOMAIN visitors \cap gone : visitors[k] = i
                      THEN [obs[i] EXCEPT !.evicted = TRUE] ELSE obs[i]]
  /\ mu' = <<Free, 0>>
  /\ spc' = [spc EXCEPT ![g] = "sleep"]
  /\ wake' = [wake EXCEPT ![g] = now + SleepInterval]
  /\ began' = [began EXCEPT ![g] = 0]
  /\ UNCHANGED <<now, nticks, nreq, heap, reqVars, visit>>
  /\ UNCHANGED outsideVars

\* ------------------------------------- the critical sections, statement
\* ------------------------------------- by statement

\* getVisitor, lines 71-75: limiter, exists := visitors[key], and for a key
\* that is not there limiter = rate.NewLimiter(r, b); visitors[key] = limiter.
GvLookup(p) ==
  /\ pc[p] \in {"found", "create"}
  /\ LET k == key[p]
         g == GroupOf(req[p])
     IN  IF pc[p] = "found"
           THEN /\ lim' = [lim EXCEPT ![p] = visitors[k]]
                /\ UNCHANGED <<visitors, heap, obs>>
           ELSE /\ heap' = Append(heap, MakeLimiter(g))
                /\ obs' = Append(obs, NewObs(k, g, now, Cardinality(Racers(k))))
                /\ visitors' = [x \in DOMAIN visitors \cup {k} |->
                                  IF x = k THEN Len(heap) + 1 ELSE visitors[x]]
                /\ lim' = [lim EXCEPT ![p] = Len(heap) + 1]
  /\ pc' = [pc EXCEPT ![p] = "touch"]
  /\ UNCHANGED <<now, nticks, nreq, lastSeen, mu, req, key, tnow, allowed, resp,
                 downstream, sweepVars>>
  /\ UNCHANGED outsideVars

\* getVisitor, line 76: lastSeen[key] = now.
GvTouch(p) ==
  /\ pc[p] = "touch"
  /\ lastSeen' = [x \in DOMAIN lastSeen \cup {key[p]} |->
                    IF x = key[p] THEN tnow[p] ELSE lastSeen[x]]
  /\ pc' = [pc EXCEPT ![p] = "unlock"]
  /\ UNCHANGED <<now, nticks, nreq, visitors, mu, heap, obs, req, key, tnow, lim,
                 allowed, resp, downstream, sweepVars>>
  /\ UNCHANGED outsideVars

\* getVisitor, line 77: mu.Unlock(); the limiter is returned.
GvUnlock(p) ==
  /\ pc[p] = "unlock"
  /\ mu' = <<Free, 0>>
  /\ pc' = [pc EXCEPT ![p] = "allow"]
  /\ UNCHANGED <<now, nticks, nreq, visitors, lastSeen, heap, obs, req, key, tnow,
                 lim, allowed, resp, downstream, sweepVars>>
  /\ UNCHANGED outsideVars

\* The keys a cleanup pass has taken out of visitors and not yet out of
\* lastSeen.
HalfDeleted == DOMAIN lastSeen \ DOMAIN visitors

\* The cleanup loop, line 92: for key, t := range lastSeen begins; the range
\* will reach each key that is in the map now and is not deleted before its
\* turn.
SweepRange(g) ==
  /\ spc[g] = "sweep"
  /\ spc' = [spc EXCEPT ![g] = "range"]
  /\ visit' = [visit EXCEPT ![g] = DOMAIN lastSeen]
  /\ UNCHANGED <<now, nticks, nreq, visitors, lastSeen, mu, heap, obs, reqVars, wake, began>>
  /\ UNCHANGED outsideVars

\* The cleanup loop, lines 92-95: the range reaches a key; when its
\* time.Since(t) > expireAfter at this moment, delete(visitors, key).
SweepVisit(g) ==
  /\ spc[g] = "range"
  /\ HalfDeleted = {}
  /\ \E k \in visit[g] :
       /\ visit' = [visit EXCEPT ![g] = @ \ {k}]
       /\ IF k \in Expired(g)
            THEN /\ visitors' = [x \in DOMAIN visitors \ {k} |-> visitors[x]]
                 /\ obs' = [i \in DOMAIN obs |->
                              IF k \in DOMAIN visitors /\ visitors[k] = i
                                THEN [obs[i] EXCEPT !.evicted = TRUE] ELSE obs[i]]
            ELSE UNCHANGED <<visitors, obs>>
  /\ UNCHANGED <<now, nticks, nreq, lastSeen, mu, heap, reqVars, spc, wake, began>>
  /\ UNCHANGED outsideVars

\* The cleanup loop, line 96: delete(lastSeen, key) for the same key.
SweepDeleteLastSeen(g) ==
  /\ spc[g] = "range"
  /\ \E k \in HalfDeleted :
       lastSeen' = [x \in DOMAIN lastSeen \ {k} |-> lastSeen[x]]
  /\ UNCHANGED <<now, nticks, nreq, visitors, mu, heap, obs, reqVars, sweepVars>>
  /\ UNCHANGED outsideVars

\* The cleanup loop, line 99: the range has reached every key, mu.Unlock(),
\* and the next time.Sleep(time.Minute).
SweepUnlock(g) ==
  /\ spc[g] = "range"
  /\ visit[g] = {}
  /\ HalfDeleted = {}
  /\ mu' = <<Free, 0>>
  /\ spc' = [spc EXCEPT ![g] = "sleep"]
  /\ wake' = [wake EXCEPT ![g] = now + SleepInterval]
  /\ began' = [began EXCEPT ![g] = 0]
  /\ UNCHANGED <<now, nticks, nreq, visitors, lastSeen, heap, obs, reqVars, visit>>
  /\ UNCHANGED outsideVars

\* ----------------------------------------------------------- the server

\* The server is asked to shut down: the router and its route groups, with
\* the registry their rate limiters use, are to be torn down.  Package
\* ratelimiter has no entry point for it and none of its goroutines looks.
Shutdown ==
  /\ ~stop
  /\ stop' = TRUE
  /\ UNCHANGED <<now, nticks, nreq, visitors, lastSeen, mu, heap, obs,
                 reqVars, sweepVars, userIDKey, authVars, deptVars>>

\* -------------------------------------------------- the department routes

\* The statements of one request are steps of their own: each request runs
\* in its own goroutine, the SELECTs of a service call run on
\* dbcontext.GetDB(ctx) outside its transaction, and nothing serialises two
\* requests.  The transaction of a call holds its writes alone; they take
\* effect together when it commits.

\* The Department value a request sends to the service: the body, with the
\* id of the path for UpdateDepartment (department.ID = id).
SentDepartment(r) ==
  IF r.route = "UpdateDepartment" THEN [r.body EXCEPT !.id = r.id] ELSE r.body

\* The id a request looks up first: the id of the body for CreateDepartment,
\* the id of the path for the other routes.
SoughtID(r) == IF r.route = "CreateDepartment" THEN r.body.id ELSE r.id

\* The handler has the answer of the service call: it writes the response.
Answer(p, res) ==
  /\ dsvc' = [dsvc EXCEPT ![p] = res]
  /\ dresp' = [dresp EXCEPT ![p] =
        DepartmentHandler(dreq[p].route, DeptPath(dreq[p].route, dreq[p].id), res)]
  /\ dpc' = [dpc EXCEPT ![p] = "done"]

\* One request to a department route arrives, from the first middleware
\* that is specific to the route to the first statement of the service call.
\* On the application's router (SetupRouter of package routes) that is
\* RoleBasedAccessControl and then the handler on departmentService, which
\* validates the body of CreateDepartment and UpdateDepartment; on the
\* router of the handler tests it is the handler on mockService.
\* JwtValidation and the rate limiter have let the request pass.
ServeDepartment(p, r) ==
  LET path == DeptPath(r.route, r.id)
      rbac == IF r.router = "app"
                THEN RoleBasedAccessControl(AllowedRoles(r.route), r.roles, path)
                ELSE NoResponse
      answer(res) ==
        /\ dsvc' = [dsvc EXCEPT ![p] = res]
        /\ dresp' = [dresp EXCEPT ![p] = DepartmentHandler(r.route, path, res)]
        /\ dpc' = [dpc EXCEPT ![p] = "done"]
  IN  /\ dpc[p] = "idle"
      /\ \A q \in Procs : q < p => dpc[q] # "idle"
      /\ dreq' = [dreq EXCEPT ![p] = r]
      /\ ndept' = ndept + 1
      /\ IF rbac.status # 0
           THEN /\ dran' = [dran EXCEPT ![p] = FALSE]
                /\ dsvc' = [dsvc EXCEPT ![p] = NoResult]
                /\ dresp' = [dresp EXCEPT ![p] = rbac]
                /\ dpc' = [dpc EXCEPT ![p] = "done"]
           ELSE /\ dran' = [dran EXCEPT ![p] = TRUE]
                /\ IF r.router = "test" THEN answer(MockService(r.route))
                   ELSE IF /\ r.route \in {"CreateDepartment", "UpdateDepartment"}
                           /\ ~ValidDepartment(SentDepartment(r))
                     THEN answer(Invalid(NoDepartment))
                   ELSE /\ dpc' = [dpc EXCEPT ![p] =
                              IF r.route = "GetAllDepartments" THEN "selall" ELSE "selid"]
                        /\ dsvc' = [dsvc EXCEPT ![p] = NoResult]
                        /\ dresp' = [dresp EXCEPT ![p] = NoResponse]
      /\ UNCHANGED <<departments, dloc>>
      /\ UNCHANGED <<now, nticks, stop, userIDKey, limiterVars, authVars>>

\* The requests to one route: any router, any roles, any id, any body.
DeptRequests(route) ==
  { [router |-> rt, route |-> route, id |-> id, body |-> b, roles |-> rl, userID |-> 1] :
      rt \in {"app", "test"},
      id \in (IF route \in {"GetAllDepartments", "CreateDepartment"} THEN {""} ELSE DeptIDs),
      b \in (IF route \in {"CreateDepartment", "UpdateDepartment"}
               THEN { [NoDepartment EXCEPT !.id = i, !.deptName = n, !.active = a] :
                        i \in (IF route = "CreateDepartment" THEN DeptIDs ELSE {""}),
                        n \in DeptNamesSent, a \in BOOLEAN }
               ELSE {NoDepartment}),
      rl \in RoleLists }

\* The requests whose goroutines SpecDeptRace interleaves: administrators on
\* the application's router, on department d001 under its two spellings and
\* with two names and on the creation of d011, and the requests of the
\* handler tests.
RaceRequests ==
  { r \in UNION {DeptRequests(route) : route \in DeptRoutes} :
      \/ /\ r.router = "app"
         /\ r.roles = <<"ROLE_ADMIN">>
         /\ r.id \in {"", "d001", "D001"}
         /\ r.body.id \in {"", "d001", "d011"}
         /\ r.body.deptName \in {"", "HR", "Finance"}
         /\ r.body.active = (r.route \in {"CreateDepartment", "UpdateDepartment"})
         /\ r.route \in {"CreateDepartment", "UpdateDepartment"} => r.body.deptName # ""
      \/ /\ r.router = "test"
         /\ r.roles = << >>
         /\ r.id \in {"", "d001"}
         /\ r.body \in {NoDepartment,
                        [NoDepartment EXCEPT !.id = "d001", !.deptName = "HR", !.active = TRUE],
                        [NoDepartment EXCEPT !.deptName = "HR", !.active = TRUE]} }

\* departmentService.GetAllDepartments: s.repo.GetAllDepartments(db)
GetAllDepartments(p) ==
  /\ dpc[p] = "selall"
  /\ Answer(p, Returned(SortedDepartments(Live(departments))))
  /\ UNCHANGED <<departments, ndept, dreq, dran, dloc>>
  /\ UNCHANGED <<now, nticks, stop, userIDKey, limiterVars, authVars>>

\* s.repo.GetDepartmentByID(db, id): the whole of
\* departmentService.GetDepartmentByID, and the first statement of
\* CreateDepartment, UpdateDepartment and DeleteDepartment.
SelectByID(p) ==
  /\ dpc[p] = "selid"
  /\ LET r == dreq[p]
         res == GetDepartmentByID(departments, SoughtID(r))
     IN  IF r.route = "GetDepartmentByID"
           THEN Answer(p, res) /\ dloc' = dloc
         ELSE IF r.route = "CreateDepartment"
           THEN IF res.err = "" \/ ~IsEmptyDepartment(res.value)
                  THEN /\ Answer(p, Failed(NoDepartment,
                                    "department with the same ID already exists"))
                       /\ dloc' = dloc
                  ELSE /\ dpc' = [dpc EXCEPT ![p] = "selname"]
                       /\ UNCHANGED <<dloc, dsvc, dresp>>
         ELSE IF res.err # ""
           THEN /\ Answer(p, Failed(IF r.route = "DeleteDepartment" THEN FALSE
                                    ELSE NoDepartment, res.err))
                /\ dloc' = dloc
         ELSE IF IsEmptyDepartment(res.value)
           THEN /\ Answer(p, Failed(IF r.route = "DeleteDepartment" THEN FALSE
                                    ELSE NoDepartment, "department not found"))
                /\ dloc' = dloc
         ELSE /\ dloc' = [dloc EXCEPT ![p] = res.value]
              /\ dpc' = [dpc EXCEPT ![p] =
                    IF r.route = "UpdateDepartment" THEN "save" ELSE "delete"]
              /\ UNCHANGED <<dsvc, dresp>>
  /\ UNCHANGED <<departments, ndept, dreq, dran>>
  /\ UNCHANGED <<now, nticks, stop, userIDKey, limiterVars, authVars>>

\* CreateDepartment: existingDepartment, err = s.repo.GetDepartmentByName(db, d.DeptName)
SelectByName(p) ==
  /\ dpc[p] = "selname"
  /\ LET res == GetDepartmentByName(departments, dreq[p].body.deptName)
     IN  IF res.err = "" \/ ~IsEmptyDepartment(res.value)
           THEN Answer(p, Failed(NoDepartment,
                          "department with the same name already exists"))
           ELSE /\ dpc' = [dpc EXCEPT ![p] = "insert"]
                /\ UNCHANGED <<dsvc, dresp>>
  /\ UNCHANGED <<departments, ndept, dreq, dran, dloc>>
  /\ UNCHANGED <<now, nticks, stop, userIDKey, limiterVars, authVars>>

\* The constraints of table department a row breaks among the rows there,
\* soft-deleted ones included: the primary key (id), which PostgreSQL
\* checks first, or else the unique constraint on dept_name.
Broken(rows, row) ==
  IF \E r \in rows : r.id = row.id THEN {"department_pkey"}
  ELSE IF \E r \in rows : r.deptName = row.deptName
    THEN UniqueNames("department", "dept_name")
  ELSE {}

\* CreateDepartment: s.repo.CreateDepartment(ctx, tx, d) inserts the row and
\* the transaction commits; the constraints turn away a row that clashes
\* with one inserted since the checks, or with a soft-deleted one.
CreateDepartment(p) ==
  /\ dpc[p] = "insert"
  /\ LET r == dreq[p]
         new == [r.body EXCEPT !.createdBy = r.userID, !.updatedBy = r.userID]
     IN  IF Broken(departments, AsRow(new)) # {}
           THEN /\ \E c \in Broken(departments, AsRow(new)) :
                     Answer(p, Failed(NoDepartment, DuplicateKey(c)))
                /\ departments' = departments
           ELSE /\ departments' = departments \cup {AsRow(new)}
                /\ Answer(p, Returned(new))
  /\ UNCHANGED <<ndept, dreq, dran, dloc>>
  /\ UNCHANGED <<now, nticks, stop, userIDKey, limiterVars, authVars>>

\* UpdateDepartment: s.repo.UpdateDepartment(ctx, tx, existingDepartment),
\* gorm's Save of the row that was read with the name, the flag and the
\* user of the request, and the commit.  Save updates the row that has the
\* id and is not soft-deleted; when there is none it inserts the row, and on
\* a clash of the primary key it overwrites every column of the row there,
\* deleted_at included.
UpdateDepartment(p) ==
  /\ dpc[p] = "save"
  /\ LET r == dreq[p]
         new == [dloc[p] EXCEPT !.deptName = r.body.deptName, !.active = r.body.active,
                                !.updatedBy = r.userID]
         others == {q \in departments : q.id # new.id}
     IN  IF \E q \in others : q.deptName = new.deptName
           THEN /\ \E c \in UniqueNames("department", "dept_name") :
                     Answer(p, Failed(NoDepartment, DuplicateKey(c)))
                /\ departments' = departments
           ELSE /\ departments' = others \cup {AsRow(new)}
                /\ Answer(p, Returned(new))
  /\ UNCHANGED <<ndept, dreq, dran, dloc>>
  /\ UNCHANGED <<now, nticks, stop, userIDKey, limiterVars, authVars>>

\* DeleteDepartment: s.repo.DeleteDepartment(ctx, tx, existingDepartment,
\* &meta.UserID), the UPDATE of deleted_by and the soft DELETE, and the
\* commit.  Both statements take the row that has the id and is not
\* soft-deleted; when there is none they change no row and return no error.
DeleteDepartment(p) ==
  /\ dpc[p] = "delete"
  /\ departments' = {IF q.id = dloc[p].id THEN [q EXCEPT !.deleted = TRUE] ELSE q :
                       q \in departments}
  /\ Answer(p, Returned(TRUE))
  /\ UNCHANGED <<ndept, dreq, dran, dloc>>
  /\ UNCHANGED <<now, nticks, stop, userIDKey, limiterVars, authVars>>

\* The response has been sent and the goroutine ends.
DeptFinish(p) ==
  /\ dpc[p] = "done"
  /\ dpc' = [dpc EXCEPT ![p] = "idle"]
  /\ dreq' = [dreq EXCEPT ![p] = NoDeptRequest]
  /\ dran' = [dran EXCEPT ![p] = FALSE]
  /\ dloc' = [dloc EXCEPT ![p] = NoDepartment]
  /\ dsvc' = [dsvc EXCEPT ![p] = NoResult]
  /\ dresp' = [dresp EXCEPT ![p] = NoResponse]
  /\ UNCHANGED <<departments, ndept>>
  /\ UNCHANGED <<now, nticks, stop, userIDKey, limiterVars, authVars>>

\* ------------------------------------------------------ the auth service

\* The statements of one service call that wait on the database or on Redis,
\* and its readings of the clock, are steps of their own: the handlers run
\* in one goroutine per request, the repositories run on
\* dbcontext.GetDB(ctx) and not on the transaction of the caller, and nothing
\* serialises two calls for one user.  CreateRefreshToken runs its statements
\* on a transaction of its own, whose changes show at its commit; every
\* other SQL statement and each Redis command takes effect at once.

\* What is stored for user u now.
UserState(u) ==
  IF u = NoUser THEN NoUserState
  ELSE [rows |-> {r \in refreshTokens : r.userID = u.id},
        lastLogin |-> lastLogin[u.id],
        redis |-> redis[RedisKey(u.userName)]]

\* AuthHandler.Login, authService.Login up to GenerateJWTToken: the user is
\* looked up (SELECT on table users) and checked, the password compared.
LoginStart(p) ==
  /\ apc[p] = "idle"
  /\ \A q \in Procs : q < p => apc[q] # "idle"
  /\ nauth' = nauth + 1
  /\ \E n \in LoginNames, pw \in LoginPasswords :
       /\ areq' = [areq EXCEPT ![p] =
              [op |-> "login", username |-> n, password |-> pw, refreshToken |-> 0]]
       /\ IF LoginError(n, pw) # ""
            THEN /\ aresp' = [aresp EXCEPT ![p] =
                       JSONError("/auth/login", 401, "Failed to login", LoginError(n, pw))]
                 /\ apc' = [apc EXCEPT ![p] = "done"]
                 /\ aloc' = [aloc EXCEPT ![p] =
                       [NoLocals EXCEPT !.before = UserState(GetUserByUserName(n))]]
            ELSE /\ aloc' = [aloc EXCEPT ![p] =
                       [NoLocals EXCEPT !.user = GetUserByUserName(n),
                                        !.before = UserState(GetUserByUserName(n))]]
                 /\ apc' = [apc EXCEPT ![p] = "jwt"]
                 /\ aresp' = aresp
  /\ UNCHANGED <<refreshTokens, redis, users, lastLogin, nuuid>>
  /\ UNCHANGED <<now, nticks, stop, userIDKey, limiterVars, deptVars>>

\* What a refresh-token request that fails is answered.
RefreshFailed(err) == JSONError("/auth/refresh-token", 401, "Failed to refresh token", err)

\* AuthHandler.RefreshToken, authService.RefreshToken up to the expiry
\* check: refreshTokenService.GetRefreshTokenByToken, the SELECT of the token
\* presented on table refresh_tokens.
RefreshStart(p) ==
  /\ apc[p] = "idle"
  /\ \A q \in Procs : q < p => apc[q] # "idle"
  /\ nauth' = nauth + 1
  /\ \E tok \in 0..nuuid :
       LET row == GetRefreshTokenByToken(refreshTokens, tok)
       IN  /\ areq' = [areq EXCEPT ![p] =
                  [op |-> "refresh", username |-> "", password |-> "", refreshToken |-> tok]]
           /\ IF row = NoRow
                THEN /\ aresp' = [aresp EXCEPT ![p] = RefreshFailed("record not found")]
                     /\ apc' = [apc EXCEPT ![p] = "done"]
                     /\ aloc' = [aloc EXCEPT ![p] = NoLocals]
                ELSE /\ aloc' = [aloc EXCEPT ![p] =
                           [NoLocals EXCEPT !.presented = row,
                                            !.before = UserState(GetUserByID(row.userID))]]
                     /\ apc' = [apc EXCEPT ![p] = "verify"]
                     /\ aresp' = aresp
  /\ UNCHANGED <<refreshTokens, redis, users, lastLogin, nuuid>>
  /\ UNCHANGED <<now, nticks, stop, userIDKey, limiterVars, deptVars>>

\* authService.RefreshToken: refreshTokenService.VerifyExpirationDate(ctx,
\* existingRefreshToken.ExpiryDate), which reads time.Now().
RefreshVerify(p) ==
  /\ apc[p] = "verify"
  /\ LET ok == VerifyExpirationDate(aloc[p].presented.expiryDate, now)
     IN  /\ aloc' = [aloc EXCEPT ![p].verified = ok]
         /\ IF ok
              THEN apc' = [apc EXCEPT ![p] = "getuser"] /\ aresp' = aresp
              ELSE /\ apc' = [apc EXCEPT ![p] = "done"]
                   /\ aresp' = [aresp EXCEPT ![p] = RefreshFailed("refresh token is expired")]
  /\ UNCHANGED <<refreshTokens, redis, users, lastLogin, nuuid, nauth, areq>>
  /\ UNCHANGED <<now, nticks, stop, userIDKey, limiterVars, deptVars>>

\* authService.RefreshToken: userService.GetUserByID(ctx,
\* existingRefreshToken.UserID), the SELECT on table users.
RefreshUser(p) ==
  /\ apc[p] = "getuser"
  /\ LET u == GetUserByID(aloc[p].presented.userID)
     IN  IF u = NoUser
           THEN /\ apc' = [apc EXCEPT ![p] = "done"]
                /\ aresp' = [aresp EXCEPT ![p] =
                      RefreshFailed("user with the given ID not found")]
                /\ aloc' = aloc
           ELSE /\ aloc' = [aloc EXCEPT ![p].user = u]
                /\ apc' = [apc EXCEPT ![p] = "jwt"]
                /\ aresp' = aresp
  /\ UNCHANGED <<refreshTokens, redis, users, lastLogin, nuuid, nauth, areq>>
  /\ UNCHANGED <<now, nticks, stop, userIDKey, limiterVars, deptVars>>

\* Login / RefreshToken: GenerateJWTToken(user), whose iat and exp come from
\* the time.Now() it reads, then ParseJWTToken and GetExpirationDateFromToken.
GenerateAccessToken(p) ==
  /\ apc[p] = "jwt"
  /\ aloc' = [aloc EXCEPT ![p].jwt = GenerateJWTToken(aloc[p].user, now)]
  /\ apc' = [apc EXCEPT ![p] = "select"]
  /\ UNCHANGED <<refreshTokens, redis, users, lastLogin, nuuid, nauth, areq, aresp>>
  /\ UNCHANGED <<now, nticks, stop, userIDKey, limiterVars, deptVars>>

\* CreateRefreshToken: existingRefreshToken, err := s.repo.GetRefreshTokenByUserID(tx, userID)
CreateSelect(p) ==
  /\ apc[p] = "select"
  /\ LET row == GetRefreshTokenByUserID(refreshTokens, aloc[p].user.id)
     IN  /\ aloc' = [aloc EXCEPT ![p].existing = row]
         /\ apc' = [apc EXCEPT ![p] = IF row # NoRow THEN "remove" ELSE "stamp"]
  /\ UNCHANGED <<refreshTokens, redis, users, lastLogin, nuuid, nauth, areq, aresp>>
  /\ UNCHANGED <<now, nticks, stop, userIDKey, limiterVars, deptVars>>

\* The rows of table refresh_tokens that the DELETE of a transaction other
\* than p's has removed and that transaction has not yet committed: they are
\* locked, and still there for everyone else.
LockedByOthers(p) ==
  UNION {aloc[q].removed : q \in {r \in Procs : r # p /\ apc[r] \in {"stamp", "create"}}}

\* CreateRefreshToken: s.repo.RemoveRefreshTokenByUserID(ctx, tx, userID).
\* The DELETE runs on tx: it takes the user's rows that are committed when
\* it starts, removes for its transaction those no other transaction has
\* locked, and waits for the others until their transaction has ended.
\* Nobody else sees the rows go before the commit.
CreateRemove(p) ==
  /\ apc[p] = "remove"
  /\ LET matched == refreshTokens \ RemoveRefreshTokenByUserID(refreshTokens, aloc[p].user.id)
     IN  aloc' = [aloc EXCEPT ![p].removed = matched \ LockedByOthers(p),
                              ![p].waiting = matched \cap LockedByOthers(p)]
  /\ apc' = [apc EXCEPT ![p] = "stamp"]
  /\ UNCHANGED <<refreshTokens, redis, users, lastLogin, nuuid, nauth, areq, aresp>>
  /\ UNCHANGED <<now, nticks, stop, userIDKey, limiterVars, deptVars>>

\* CreateRefreshToken: the DELETE, if any, has ended (the rows it waited for
\* are free, and it has removed those that are still there), and the new
\* row is made: tokenStr := uuid.New().String() and
\* ExpiryDate: GetRefreshTokenExpiration(time.Now()), the clock as read here,
\* before the INSERT and the commit.
CreateStamp(p) ==
  /\ apc[p] = "stamp"
  /\ aloc[p].waiting \cap LockedByOthers(p) = {}
  /\ aloc' = [aloc EXCEPT
                ![p].removed = aloc[p].removed \cup (aloc[p].waiting \cap refreshTokens),
                ![p].waiting = {},
                ![p].refreshToken = [token |-> nuuid + 1, userID |-> aloc[p].user.id,
                                     expiryDate |-> GetRefreshTokenExpiration(now)]]
  /\ nuuid' = nuuid + 1
  /\ apc' = [apc EXCEPT ![p] = "create"]
  /\ UNCHANGED <<refreshTokens, redis, users, lastLogin, nauth, areq, aresp>>
  /\ UNCHANGED <<now, nticks, stop, userIDKey, limiterVars, deptVars>>

\* The keys the RefreshToken entity may put on column user_id, whose
\* definition the build takes from package refreshtoken: the primary key, a
\* unique index under either name gorm gives one, or none ("").
UserIDKeys == {"refresh_tokens_pkey", ""} \cup UniqueNames("refresh_tokens", "user_id")

\* CreateRefreshToken: s.repo.CreateRefreshToken(ctx, tx, refreshToken), the
\* INSERT of the row made above, and the commit of tx: the rows removed go
\* and the new row appears in one step.  When another row of the user is
\* there by then, a key on user_id refuses the insert, the transaction is
\* rolled back and Login / RefreshToken return the error; without a key the
\* row is inserted.  Which it is shows at the first such insert and stays.
CreateInsert(p) ==
  /\ apc[p] = "create"
  /\ LET row == aloc[p].refreshToken
         kept == refreshTokens \ aloc[p].removed
         path == IF areq[p].op = "login" THEN "/auth/login" ELSE "/auth/refresh-token"
         message == IF areq[p].op = "login" THEN "Failed to login"
                    ELSE "Failed to refresh token"
         insert == /\ refreshTokens' = kept \cup {row}
                   /\ aloc' = [aloc EXCEPT ![p].created = row]
                   /\ apc' = [apc EXCEPT ![p] = "touch"]
                   /\ aresp' = aresp
         refuse(k) == /\ refreshTokens' = refreshTokens
                      /\ aloc' = aloc
                      /\ apc' = [apc EXCEPT ![p] = "done"]
                      /\ aresp' = [aresp EXCEPT ![p] =
                            JSONError(path, 401, message, DuplicateKey(k))]
     IN  IF ~\E r \in kept : r.userID = row.userID
           THEN insert /\ userIDKey' = userIDKey
           ELSE \E k \in (IF userIDKey = "unknown" THEN UserIDKeys ELSE {userIDKey}) :
                  /\ userIDKey' = k
                  /\ IF k = "" THEN insert ELSE refuse(k)
  /\ UNCHANGED <<redis, users, lastLogin, nuuid, nauth, areq>>
  /\ UNCHANGED <<now, nticks, stop, limiterVars, deptVars>>

\* What gin's Recovery middleware (gin.Default()) answers when a handler
\* panics: status 500 and no body.
Recovered == [NoResponse EXCEPT !.status = 500]

\* userService.UpdateLastLogin(ctx, id, time.Now()), the call: Login /
\* RefreshToken evaluate time.Now() for the argument.
UpdateLastLogin(p) ==
  /\ apc[p] = "touch"
  /\ aloc' = [aloc EXCEPT ![p].at = now]
  /\ apc' = [apc EXCEPT ![p] = "readuser"]
  /\ UNCHANGED <<refreshTokens, redis, users, lastLogin, nuuid, nauth, areq, aresp>>
  /\ UNCHANGED <<now, nticks, stop, userIDKey, limiterVars, deptVars>>

\* UpdateLastLogin: existingUser, err := s.repo.GetUserByID(db, id), and
\* *existingUser.LastLogin = lastLogin.  For a user whose last_login is NULL
\* the pointer is nil and the assignment panics; the panic leaves Login /
\* RefreshToken and the handler.
UpdateLastLoginRead(p) ==
  /\ apc[p] = "readuser"
  /\ IF lastLogin[aloc[p].user.id] = NeverLoggedIn
       THEN /\ aresp' = [aresp EXCEPT ![p] = Recovered]
            /\ apc' = [apc EXCEPT ![p] = "done"]
       ELSE /\ apc' = [apc EXCEPT ![p] = "saveuser"]
            /\ aresp' = aresp
  /\ UNCHANGED <<refreshTokens, redis, users, lastLogin, nuuid, nauth, areq, aloc>>
  /\ UNCHANGED <<now, nticks, stop, userIDKey, limiterVars, deptVars>>

\* UpdateLastLogin: s.repo.UpdateUser(ctx, tx, existingUser) saves the row
\* with the time the caller passed, and the transaction commits.
UpdateLastLoginSave(p) ==
  /\ apc[p] = "saveuser"
  /\ lastLogin' = [lastLogin EXCEPT ![aloc[p].user.id] = aloc[p].at]
  /\ apc' = [apc EXCEPT ![p] = "store"]
  /\ UNCHANGED <<refreshTokens, redis, users, nuuid, nauth, areq, aloc, aresp>>
  /\ UNCHANGED <<now, nticks, stop, userIDKey, limiterVars, deptVars>>

\* UserHandler.CreateUser up to the first statement of the transaction of
\* userService.CreateUser: the body binds and validates, and its roles are
\* found in table roles.
CreateUserStart(p) ==
  /\ apc[p] = "idle"
  /\ \A q \in Procs : q < p => apc[q] # "idle"
  /\ nauth' = nauth + 1
  /\ \E n \in CreateNames, pw \in CreatePasswords :
       areq' = [areq EXCEPT ![p] =
          [op |-> "createuser", username |-> n, password |-> pw,
           refreshToken |-> 0]]
  /\ apc' = [apc EXCEPT ![p] = "byname"]
  /\ aloc' = [aloc EXCEPT ![p] = NoLocals]
  /\ UNCHANGED <<refreshTokens, redis, users, lastLogin, nuuid, aresp>>
  /\ UNCHANGED <<now, nticks, stop, userIDKey, limiterVars, deptVars>>

\* What the handler answers when userService.CreateUser returns an error
\* that is no validation error.
CreateUserFailed(err) == JSONError("/api/v1/users", 500, "Failed to create user", err)

\* CreateUser: existingUser, err := s.repo.GetUserByUserName(db, user.UserName)
CreateUserByName(p) ==
  /\ apc[p] = "byname"
  /\ IF GetUserByUserName(areq[p].username) # NoUser
       THEN /\ aresp' = [aresp EXCEPT ![p] =
                  CreateUserFailed("user with this username already exists")]
            /\ apc' = [apc EXCEPT ![p] = "done"]
       ELSE /\ apc' = [apc EXCEPT ![p] = "byemail"]
            /\ aresp' = aresp
  /\ UNCHANGED <<refreshTokens, redis, users, lastLogin, nuuid, nauth, areq, aloc>>
  /\ UNCHANGED <<now, nticks, stop, userIDKey, limiterVars, deptVars>>

\* CreateUser: existingUser, err = s.repo.GetUserByEmail(db, user.Email)
CreateUserByEmail(p) ==
  /\ apc[p] = "byemail"
  /\ IF GetUserByEmail(EmailOf(areq[p].username)) # NoUser
       THEN /\ aresp' = [aresp EXCEPT ![p] =
                  CreateUserFailed("user with this email already exists")]
            /\ apc' = [apc EXCEPT ![p] = "done"]
       ELSE /\ apc' = [apc EXCEPT ![p] = "insert"]
            /\ aresp' = aresp
  /\ UNCHANGED <<refreshTokens, redis, users, lastLogin, nuuid, nauth, areq, aloc>>
  /\ UNCHANGED <<now, nticks, stop, userIDKey, limiterVars, deptVars>>

\* CreateUser: s.repo.CreateUser(ctx, tx, user) inserts the row, with
\* last_login NULL and the password of the body as it is, and the
\* transaction commits; the unique constraint on username turns away a row
\* another request inserted since the checks.
CreateUserInsert(p) ==
  /\ apc[p] = "insert"
  /\ LET u == NewUser(areq[p].username, areq[p].password)
     IN  IF \E v \in users : v.userName = u.userName
           THEN /\ \E c \in UniqueNames("users", "username") :
                     aresp' = [aresp EXCEPT ![p] = CreateUserFailed(DuplicateKey(c))]
                /\ UNCHANGED <<users, lastLogin>>
           ELSE /\ users' = users \cup {u}
                /\ lastLogin' = [i \in DOMAIN lastLogin \cup {u.id} |->
                                    IF i = u.id THEN NeverLoggedIn ELSE lastLogin[i]]
                /\ aresp' = [aresp EXCEPT ![p] =
                       JSONSuccess("/api/v1/users", 201, "User created successfully", u)]
  /\ apc' = [apc EXCEPT ![p] = "done"]
  /\ UNCHANGED <<refreshTokens, redis, nuuid, nauth, areq, aloc>>
  /\ UNCHANGED <<now, nticks, stop, userIDKey, limiterVars, deptVars>>

\* The rest of Login / RefreshToken: the tokens are stored in Redis under
\* access_token:<username> and returned, and the handler answers 200; when
\* redisutil.SetJSON returns an error the call returns it and the handler
\* answers 401.
StoreAndReturn(p) ==
  /\ apc[p] = "store"
  /\ \E err \in SetErrors :
       LET data == TokenResponse(aloc[p].jwt, aloc[p].created.token)
       IN  IF err = ""
             THEN /\ redis' = SetJSON(redis, RedisKey(aloc[p].user.userName), data,
                                      AccessTokenTTL, now)
                  /\ aresp' = [aresp EXCEPT ![p] =
                         IF areq[p].op = "login"
                           THEN JSONSuccess("/auth/login", 200, "Login successful", data)
                           ELSE JSONSuccess("/auth/refresh-token", 200,
                                            "Token refreshed successfully", data)]
             ELSE /\ redis' = redis
                  /\ aresp' = [aresp EXCEPT ![p] =
                         IF areq[p].op = "login"
                           THEN JSONError("/auth/login", 401, "Failed to login", err)
                           ELSE JSONError("/auth/refresh-token", 401,
                                          "Failed to refresh token", err)]
  /\ apc' = [apc EXCEPT ![p] = "done"]
  /\ UNCHANGED <<refreshTokens, users, lastLogin, nuuid, nauth, areq, aloc>>
  /\ UNCHANGED <<now, nticks, stop, userIDKey, limiterVars, deptVars>>

\* The response has been sent and the goroutine ends.
AuthFinish(p) ==
  /\ apc[p] = "done"
  /\ apc' = [apc EXCEPT ![p] = "idle"]
  /\ areq' = [areq EXCEPT ![p] = NoAuthRequest]
  /\ aloc' = [aloc EXCEPT ![p] = NoLocals]
  /\ aresp' = [aresp EXCEPT ![p] = NoResponse]
  /\ UNCHANGED <<refreshTokens, redis, users, lastLogin, nuuid, nauth>>
  /\ UNCHANGED <<now, nticks, stop, userIDKey, limiterVars, deptVars>>

\* ---------------------------------------------------------- specification

\* Goroutines interleave freely and time passes between any two steps.
Next ==
  \/ nticks < MaxTicks /\ \E d \in TickSteps : Tick(d)
  \/ nreq < MaxReqs /\ \E p \in Procs : Start(p)
  \/ \E p \in Procs : Lock(p)
  \/ \E p \in Procs : Unlock(p)
  \/ \E p \in Procs : Allow(p)
  \/ \E p \in Procs : Finish(p)
  \/ \E g \in Groups : SweepLock(g)
  \/ \E g \in Groups : Sweep(g)

Spec == Init /\ [][Next]_vars

\* No request is being served and no cleanup loop is at work.
Quiet ==
  /\ \A p \in Procs : pc[p] = "idle"
  /\ \A g \in Groups : spc[g] = "sleep"

\* The same goroutines, scheduled so that requests and sweeps run one after
\* the other, each at one instant.
NextSeq ==
  \/ Quiet /\ nticks < SeqMaxTicks /\ \E d \in TickSteps : Tick(d)
  \/ Quiet /\ nreq < SeqMaxReqs /\ \E p \in Procs : Start(p)
  \/ \E p \in Procs : Lock(p)
  \/ \E p \in Procs : Unlock(p)
  \/ \E p \in Procs : Allow(p)
  \/ \E p \in Procs : Finish(p)
  \/ Quiet /\ \E g \in Groups : SweepLock(g)
  \/ \E g \in Groups : Sweep(g)

SpecSeq == Init /\ [][NextSeq]_vars

\* No goroutine is inside getVisitor or inside a sweep: every request
\* goroutine is idle or holds its limiter and has not called Allow() yet.
Settled ==
  /\ \A p \in Procs : pc[p] \in {"idle", "allow"}
  /\ \A g \in Groups : spc[g] = "sleep"

\* The same goroutines, scheduled so that getVisitor and the sweeps run one
\* after the other, while a request may stay between getVisitor's return
\* and limiter.Allow() as long as the scheduler leaves it there.
NextStall ==
  \/ Settled /\ nticks < StallMaxTicks /\ \E d \in TickSteps : Tick(d)
  \/ Settled /\ nreq < StallMaxReqs /\ \E p \in Procs : Start(p)
  \/ \E p \in Procs : Lock(p)
  \/ \E p \in Procs : Unlock(p)
  \/ \E p \in Procs : Allow(p)
  \/ \E p \in Procs : Finish(p)
  \/ Settled /\ \E g \in Groups : SweepLock(g)
  \/ \E g \in Groups : Sweep(g)

SpecStall == Init /\ [][NextStall]_vars

\* Requests one after the other, and a shutdown request at any quiet moment.
NextStop ==
  \/ NextSeq
  \/ Quiet /\ Shutdown

SpecStop == Init /\ [][NextStop]_vars

\* The request goroutines alone, interleaving freely, on requests that
\* differ in address, method and path.
NextKey ==
  \/ nreq < KeyMaxReqs /\ \E p \in Procs : StartWith(p, KeyRequests)
  \/ \E p \in Procs : Lock(p)
  \/ \E p \in Procs : Unlock(p)
  \/ \E p \in Procs : Allow(p)
  \/ \E p \in Procs : Finish(p)

SpecKey == Init /\ [][NextKey]_vars

\* The requests of SpecLive: those that reach the rate limiter, and one that
\* JwtValidation turns away before it.
LiveRequests == {r \in Requests : r.jwt \in {"none", "valid"}}

\* The clients send one more of their LiveMaxReqs requests.
Arrive == nreq < LiveMaxReqs /\ \E p \in Procs : StartWith(p, LiveRequests)

\* The goroutines of Spec, with clients that send LiveMaxReqs requests and
\* then none, and the time that passes after the last of them.
NextLive ==
  \/ nticks < LiveMaxTicks /\ \E d \in TickSteps : Tick(d)
  \/ Pass
  \/ Arrive
  \/ \E p \in Procs : Lock(p)
  \/ \E p \in Procs : Unlock(p)
  \/ \E p \in Procs : Allow(p)
  \/ \E p \in Procs : Finish(p)
  \/ \E g \in Groups : SweepLock(g)
  \/ \E g \in Groups : Sweep(g)

\* Fair scheduling: time does not stand still, every goroutine that can take
\* a step takes one (sync.Mutex hands the lock to a waiter), and a request
\* that was read is served to its end.
LiveFairness ==
  /\ WF_vars(Pass)
  /\ WF_vars(Arrive)
  /\ \A p \in Procs :
       WF_vars(Lock(p)) /\ WF_vars(Unlock(p)) /\ WF_vars(Allow(p)) /\ WF_vars(Finish(p))
  /\ \A g \in Groups : WF_vars(SweepLock(g)) /\ WF_vars(Sweep(g))

SpecLive == Init /\ [][NextLive]_vars /\ LiveFairness

\* The goroutines of Spec with their critical sections taken statement by
\* statement.
NextMaps ==
  \/ nticks < MaxTicks /\ \E d \in TickSteps : Tick(d)
  \/ nreq < MaxReqs /\ \E p \in Procs : Start(p)
  \/ \E p \in Procs : Lock(p)
  \/ \E p \in Procs : GvLookup(p)
  \/ \E p \in Procs : GvTouch(p)
  \/ \E p \in Procs : GvUnlock(p)
  \/ \E p \in Procs : Allow(p)
  \/ \E p \in Procs : Finish(p)
  \/ \E g \in Groups : SweepLock(g)
  \/ \E g \in Groups : SweepRange(g)
  \/ \E g \in Groups : SweepVisit(g)
  \/ \E g \in Groups : SweepDeleteLastSeen(g)
  \/ \E g \in Groups : SweepUnlock(g)

SpecMaps == Init /\ [][NextMaps]_vars

\* The auth service alone: login and refresh-token requests that passed the
\* rate limiter (they come from different addresses), interleaving freely.
NextAuth ==
  \/ nticks < AuthMaxTicks /\ \E d \in AuthTickSteps : Tick(d)
  \/ nauth < AuthMaxReqs /\ \E p \in Procs : LoginStart(p)
  \/ nauth < AuthMaxReqs /\ \E p \in Procs : RefreshStart(p)
  \/ nauth < AuthMaxReqs /\ \E p \in Procs : CreateUserStart(p)
  \/ \E p \in Procs : RefreshVerify(p)
  \/ \E p \in Procs : RefreshUser(p)
  \/ \E p \in Procs : GenerateAccessToken(p)
  \/ \E p \in Procs : CreateSelect(p)
  \/ \E p \in Procs : CreateRemove(p)
  \/ \E p \in Procs : CreateStamp(p)
  \/ \E p \in Procs : CreateInsert(p)
  \/ \E p \in Procs : UpdateLastLogin(p)
  \/ \E p \in Procs : UpdateLastLoginRead(p)
  \/ \E p \in Procs : UpdateLastLoginSave(p)
  \/ \E p \in Procs : CreateUserByName(p)
  \/ \E p \in Procs : CreateUserByEmail(p)
  \/ \E p \in Procs : CreateUserInsert(p)
  \/ \E p \in Procs : StoreAndReturn(p)
  \/ \E p \in Procs : AuthFinish(p)

SpecAuth == Init /\ [][NextAuth]_vars

\* No login or refresh-token request is being served.
AuthQuiet == \A p \in Procs : apc[p] = "idle"

\* The auth service with its requests served one after the other.
NextAuthSeq ==
  \/ nticks < AuthMaxTicks /\ \E d \in AuthTickSteps : Tick(d)
  \/ AuthQuiet /\ nauth < AuthSeqMaxReqs /\ \E p \in Procs : LoginStart(p)
  \/ AuthQuiet /\ nauth < AuthSeqMaxReqs /\ \E p \in Procs : RefreshStart(p)
  \/ AuthQuiet /\ nauth < AuthSeqMaxReqs /\ \E p \in Procs : CreateUserStart(p)
  \/ \E p \in Procs : RefreshVerify(p)
  \/ \E p \in Procs : RefreshUser(p)
  \/ \E p \in Procs : GenerateAccessToken(p)
  \/ \E p \in Procs : CreateSelect(p)
  \/ \E p \in Procs : CreateRemove(p)
  \/ \E p \in Procs : CreateStamp(p)
  \/ \E p \in Procs : CreateInsert(p)
  \/ \E p \in Procs : UpdateLastLogin(p)
  \/ \E p \in Procs : UpdateLastLoginRead(p)
  \/ \E p \in Procs : UpdateLastLoginSave(p)
  \/ \E p \in Procs : CreateUserByName(p)
  \/ \E p \in Procs : CreateUserByEmail(p)
  \/ \E p \in Procs : CreateUserInsert(p)
  \/ \E p \in Procs : StoreAndReturn(p)
  \/ \E p \in Procs : AuthFinish(p)

SpecAuthSeq == Init /\ [][NextAuthSeq]_vars

\* No department request is being served.
DeptQuiet == \A p \in Procs : dpc[p] = "idle"

\* The department routes alone, one request after the other.
NextDept ==
  \/ /\ DeptQuiet /\ ndept < DeptMaxReqs
     /\ \E p \in Procs, route \in DeptRoutes :
          \E r \in DeptRequests(route) : ServeDepartment(p, r)
  \/ \E p \in Procs : GetAllDepartments(p)
  \/ \E p \in Procs : SelectByID(p)
  \/ \E p \in Procs : SelectByName(p)
  \/ \E p \in Procs : CreateDepartment(p)
  \/ \E p \in Procs : UpdateDepartment(p)
  \/ \E p \in Procs : DeleteDepartment(p)
  \/ \E p \in Procs : DeptFinish(p)

SpecDept == Init /\ [][NextDept]_vars

\* The department routes alone, their request goroutines interleaving
\* freely.
NextDeptRace ==
  \/ /\ ndept < DeptRaceMaxReqs
     /\ \E p \in Procs, r \in RaceRequests : ServeDepartment(p, r)
  \/ \E p \in Procs : GetAllDepartments(p)
  \/ \E p \in Procs : SelectByID(p)
  \/ \E p \in Procs : SelectByName(p)
  \/ \E p \in Procs : CreateDepartment(p)
  \/ \E p \in Procs : UpdateDepartment(p)
  \/ \E p \in Procs : DeleteDepartment(p)
  \/ \E p \in Procs : DeptFinish(p)

SpecDeptRace == Init /\ [][NextDeptRace]_vars

\* ------------------------------------------------------------------ claims

Limiters == DOMAIN heap
Burst(i) == LimiterConfig(obs[i].group).burst
Every(i) == LimiterConfig(obs[i].group).every

\* C1: a limiter made for a key that had no entry starts with the burst of
\* its route group, B tokens; of the requests served at the instant it was
\* made, none is rejected before B were let through and no more than B are
\* let through: the first B are admitted and the (B+1)th is denied.
C1_BurstAdmission ==
  \A i \in Limiters :
    /\ obs[i].t = -1 => heap[i].tokens = Burst(i) * Every(i)
    /\ obs[i].t = obs[i].born =>
         /\ obs[i].ok <= Burst(i)
         /\ obs[i].no > 0 => obs[i].ok = Burst(i)

\* The /departments bucket (B = 2) let two requests through and rejected
\* the third at the instant it was made.
C1_Witness ==
  \E i \in Limiters :
    /\ obs[i].group = "departments"
    /\ obs[i].t = obs[i].born
    /\ obs[i].ok = 2
    /\ obs[i].no = 1

\* C2 (as claimed): the admission checks made for one key at one instant (no
\* refill between them) are served as if one after the other on the key's
\* bucket.  On one bucket: the requests let through never exceed the whole
\* tokens it held, and a request is rejected only when all of them are
\* taken, so C concurrent requests on C-1 tokens end with exactly C-1
\* admitted and 1 denied.  For the key: whichever limiters the requests were
\* checked on, the requests let through at the instant do not exceed the
\* tokens a bucket of the key held.
C2_AdmissionExact ==
  /\ \A i \in Limiters :
       obs[i].t # -1 =>
         /\ obs[i].ok * Every(i) <= obs[i].avail
         /\ obs[i].no > 0 => obs[i].ok = obs[i].avail \div Every(i)
  /\ \A i, j \in Limiters :
       (i < j /\ obs[i].key = obs[j].key /\ obs[i].t # -1 /\ obs[i].t = obs[j].t)
         => (obs[i].ok + obs[j].ok) * Every(i) <= Max(obs[i].avail, obs[j].avail)

\* The requests that hold the limiter getVisitor returned to them.
Holders == {p \in Procs : pc[p] \in {"allow", "done"} /\ lim[p] # 0}

\* C3 (as claimed): requests that arrive together for a key and run
\* getVisitor at the same time, the key being new, make and store one
\* limiter between them and all get that one; and the requests let through
\* at the instant a limiter was made do not exceed the burst.  (tnow is the
\* time.Now() of a request's getVisitor; racers counts the requests for the
\* key that were inside getVisitor when the limiter was made.)
C3_SingleCreation ==
  /\ \A p, q \in Holders :
       (/\ key[p] = key[q] /\ tnow[p] = tnow[q]
        /\ obs[lim[p]].racers >= 2 /\ obs[lim[p]].born <= obs[lim[q]].born)
         => lim[p] = lim[q]
  /\ \A i \in Limiters : obs[i].t = obs[i].born => obs[i].ok <= Burst(i)

\* The route group whose RateLimiter made the entry of key k.
OwnerOf(k) == obs[visitors[k]].group

\* C4 (as claimed): an entry leaves the registry only once it has been idle
\* for longer than the expireAfter of the route group that made it; a
\* /departments entry (10 min) is never removed after 5 min of idleness.
C4_OwnTTLOnly ==
  [][\A k \in DOMAIN visitors :
       k \notin DOMAIN visitors' =>
         now - lastSeen[k] > LimiterConfig(OwnerOf(k)).expireAfter]_vars

\* C5 (as claimed): while a request is between getVisitor's return and the
\* end of limiter.Allow(), the entry of its key stays in the registry and is
\* the limiter the request holds.
C5_NoEvictionInFlight ==
  \A p \in Procs :
    pc[p] = "allow" => (Exists(key[p]) /\ visitors[key[p]] = lim[p])

\* C6 (as claimed): when the last call on a bucket was the admission that
\* exhausted it and T seconds then pass without a request for its key, the
\* requests let through before the next rejection are floor(min(R*T, B)).
C6_RefillSinceExhaustion ==
  \A i \in Limiters :
    (obs[i].exh /\ obs[i].quiet > 0 /\ obs[i].quiet = obs[i].el) =>
      /\ obs[i].ok <= Min(obs[i].quiet \div Every(i), Burst(i))
      /\ obs[i].no > 0 => obs[i].ok = Min(obs[i].quiet \div Every(i), Burst(i))

\* C6 (amended): when a bucket was exhausted by the last call on it, the
\* requests then let through before the next rejection are
\* floor(min(f + R*T, B)), with T the time since the last admission and f
\* the fraction of a token that admission left in the bucket.
C6_RefillSinceAdmission ==
  \A i \in Limiters :
    obs[i].exh =>
      /\ obs[i].ok <= Min(obs[i].f0 + obs[i].el, Burst(i) * Every(i)) \div Every(i)
      /\ obs[i].no > 0 =>
           obs[i].ok = Min(obs[i].f0 + obs[i].el, Burst(i) * Every(i)) \div Every(i)

\* An exhausted bucket that kept a fraction of a token let a request
\* through less than one refill interval after its last admission, and
\* rejected the next.
C6_Witness ==
  \E i \in Limiters :
    /\ obs[i].exh
    /\ obs[i].f0 > 0
    /\ obs[i].el > 0
    /\ obs[i].el < Every(i)
    /\ obs[i].ok = 1
    /\ obs[i].no = 1

\* The limiters made for a key whose earlier limiter a sweep had removed.
Remade == {j \in Limiters :
             \E i \in Limiters : i < j /\ obs[i].key = obs[j].key /\ obs[i].evicted}

\* C7: a sweep removes from visitors and from lastSeen together every key
\* whose lastSeen is older than the sweep's expireAfter; the limiter the
\* next request for such a key gets is a new one with its full burst, which
\* is let through at once.
C7_IdleEviction ==
  /\ [][\A g \in Groups :
          (spc[g] = "sweep" /\ spc'[g] = "sleep") =>
            /\ \A k \in DOMAIN visitors \cup DOMAIN lastSeen :
                 (k \in DOMAIN lastSeen
                    /\ now - lastSeen[k] > LimiterConfig(g).expireAfter)
                   => (k \notin DOMAIN visitors' /\ k \notin DOMAIN lastSeen')
            /\ DOMAIN visitors' = DOMAIN lastSeen']_vars
  /\ [](\A j \in Remade :
          /\ obs[j].t = -1 => heap[j].tokens = Burst(j) * Every(j)
          /\ obs[j].t = obs[j].born =>
               /\ obs[j].ok <= Burst(j)
               /\ obs[j].no > 0 => obs[j].ok = Burst(j))

\* The /auth/login key was swept after more than 5 min of idleness, and the
\* limiter made for its next request let the burst through and rejected the
\* request after it.
C7_Witness ==
  \E j \in Remade :
    /\ obs[j].group = "auth"
    /\ obs[j].t = obs[j].born
    /\ obs[j].ok = Burst(j)
    /\ obs[j].no = 1

\* What identifies the client and the route of a request.
Tuple(r) == <<r.ip, r.method, r.path>>

\* The registry's entry for key k: the limiter, its state, the answer it
\* would give now, and lastSeen.
EntryOf(k) ==
  IF k \in DOMAIN visitors
    THEN <<TRUE, visitors[k], heap[visitors[k]],
           AllowAt(heap[visitors[k]], now).ok, lastSeen[k]>>
    ELSE <<FALSE>>

\* C8: no step of a request for key A, admitted or rejected, changes the
\* entry of another key B: its limiter, the limiter's state, the answer the
\* limiter would give, its lastSeen.
C8_PerKeyIsolation ==
  [][\A p \in Procs :
       pc'[p] # pc[p] =>
         \A r \in Requests :
           Tuple(r) # Tuple(IF pc[p] = "idle" THEN req'[p] ELSE req[p])
             => EntryOf(MakeKey(r))' = EntryOf(MakeKey(r))]_vars

\* The /auth/login bucket was exhausted while the /departments bucket of
\* the same client, made before, stood by; the /departments request was let
\* through afterwards on a bucket that only its own token had left.
C8_Witness ==
  \E i, j \in Limiters :
    /\ obs[i].group = "auth"
    /\ obs[i].admits = 1
    /\ heap[i].tokens < Every(i)
    /\ obs[j].group = "departments"
    /\ obs[j].born <= obs[i].t
    /\ obs[j].t >= obs[i].t
    /\ obs[j].ok = 1
    /\ heap[j].tokens = (Burst(j) - 1) * Every(j)

\* The body of the middleware's rejection of a request for `path`.
RateLimitBody(path) ==
  [status |-> 429, message |-> "Rate limit exceeded",
   error |-> "You have exceeded the rate limit. Please try again later.",
   path |-> path, data |-> "null"]

\* The requests whose chain reached limiter.Allow() and got its answer.
Checked == {p \in Procs : pc[p] = "done" /\ lim[p] # 0}

\* C9: a request the limiter rejects gets 429 with the rate-limit body for
\* its path and the rest of its chain does not run; a request it admits
\* goes on down the chain; the rest of a rate-limited route's chain never
\* runs before the check has admitted the request.
C9_RejectionResponse ==
  /\ \A p \in Checked :
       IF allowed[p]
         THEN downstream[p] /\ resp[p].status # 429
         ELSE ~downstream[p] /\ resp[p] = RateLimitBody(req[p].path)
  /\ \A p \in Procs : downstream[p] => (p \in Checked /\ allowed[p])

\* One request was rejected with the 429 body and another one went on to
\* its handler.
C9_Witness ==
  \E p, q \in Checked :
    /\ ~allowed[p] /\ resp[p].status = 429 /\ resp[p].path = "/auth/login"
    /\ allowed[q] /\ downstream[q]

\* The limiters of the /auth/login route.
LoginLimiters == {i \in Limiters : obs[i].key = "10.0.0.1:POST:/auth/login"}

\* C10: on the login route (one token per 30 s, burst 1, 5 min), for one
\* client: the first request is let through; a request less than 30 s after
\* the last admission is rejected, with the 429 body; a request 30 s or
\* more after it is let through; and a new limiter is made for the client
\* only 30 s or more after the last admission of the one before.
C10_LoginScenario ==
  /\ \A i \in LoginLimiters :
       obs[i].t # -1 =>
         /\ obs[i].el = -1 => obs[i].ok = 1
         /\ (0 <= obs[i].el /\ obs[i].el < 30) => obs[i].ok = 0
         /\ obs[i].el >= 30 => obs[i].ok = 1
  /\ \A i, j \in LoginLimiters : i < j => obs[j].born - heap[i].last >= 30
  /\ \A p \in Checked :
       (req[p].path = "/auth/login" /\ ~downstream[p]) =>
         resp[p] = [status |-> 429, message |-> "Rate limit exceeded",
                    error |-> "You have exceeded the rate limit. Please try again later.",
                    path |-> "/auth/login", data |-> "null"]

\* A first login was let through, a second one less than 30 s later was
\* rejected, and a third one 30 s or more after the first was let through.
C10_Witness ==
  \E i \in LoginLimiters :
    /\ obs[i].admits = 2
    /\ obs[i].el >= 30
    /\ obs[i].quiet > 0
    /\ obs[i].quiet < obs[i].el
    /\ obs[i].el - obs[i].quiet < 30
    /\ obs[i].ok = 1

\* C11 (as claimed): what a key's requests are granted depends on the key's
\* own requests and its own group's (rate, burst, expireAfter) alone: as
\* long as the group's own expireAfter has not passed since the key's
\* limiter was made, no other limiter grants requests of the key, so the
\* requests let through for the key at one instant stay within the burst,
\* whatever the other groups are configured with.
C11_OwnConfigOnly ==
  \A i, j \in Limiters :
    (/\ i < j
     /\ obs[i].key = obs[j].key
     /\ obs[j].born - obs[i].born <= LimiterConfig(obs[i].group).expireAfter
     /\ obs[i].t # -1
     /\ obs[i].t = obs[j].t)
      => obs[i].ok + obs[j].ok <= Burst(i)

\* C12 (as claimed): once the server has been asked to shut down, no
\* cleanup goroutine starts another pass over the registry.
C12_NoSweepAfterStop ==
  [][stop => \A g \in Groups : ~(spc[g] = "sleep" /\ spc'[g] = "sweep")]_vars

\* C13 (as claimed): two requests from the same address with the same
\* method that the router matches to the same route are checked on the same
\* limiter.
C13_SameRouteSameBucket ==
  \A p, q \in Checked :
    (/\ req[p].ip = req[q].ip
     /\ req[p].method = req[q].method
     /\ RouteOf(req[p]) = RouteOf(req[q]))
      => lim[p] = lim[q]

\* The requests that have derived their key.
Keyed == {p \in Procs : pc[p] \in {"lock", "found", "create", "allow"}} \cup Checked

\* C14: requests with the same (address, method, path) get the same key and
\* requests that differ in one of the three get different keys, also when
\* the address is an IPv6 address or the path has a ':' in it; so the
\* limiters in the registry are one per (address, method, path).
C14_KeyInjective ==
  /\ \A p, q \in Keyed :
       (key[p] = key[q]) <=> (Tuple(req[p]) = Tuple(req[q]))
  /\ \A p, q \in Checked :
       (lim[p] = lim[q]) <=> (Tuple(req[p]) = Tuple(req[q]))

\* An IPv6 client's request for a path with a ':' and a request that
\* differs from it only in the address were checked, each with its own key.
C14_Witness ==
  \E p, q \in Checked :
    /\ req[p].ip = "::1"
    /\ req[p].path = "/api/v1/departments/1:2"
    /\ req[q].ip = "10.0.0.1"
    /\ req[q].path = req[p].path
    /\ key[p] = "::1:GET:/api/v1/departments/1:2"
    /\ key[q] # key[p]
    /\ lim[q] # lim[p]

\* C15 (as claimed): the answers to the requests of a key are those of the
\* key's one bucket at the times of the requests, whenever the sweeps run:
\* the requests of a key that are checked at the same instant are let
\* through up to the burst and rejected beyond it, on whichever limiter
\* they are checked.
C15_SweepIndependent ==
  \A i, j \in Limiters :
    (i < j /\ obs[i].key = obs[j].key /\ obs[i].t # -1 /\ obs[i].t = obs[j].t)
      => /\ obs[i].ok + obs[j].ok <= Burst(i)
         /\ (obs[i].no + obs[j].no > 0) => obs[i].ok + obs[j].ok = Burst(i)

\* C16 (as claimed): getVisitor sets lastSeen of the request's key to the
\* time of the request, before the limiter admits or rejects it; and an
\* entry leaves the registry only when its key has had no request for
\* longer than its group's expireAfter, so a key that is asked for more
\* often than that, if only to be rejected, stays.
C16_TouchKeepsAlive ==
  [][/\ \A p \in Procs :
          (pc[p] \in {"found", "create"} /\ pc'[p] = "allow")
            => lastSeen'[key[p]] = now
     /\ \A k \in DOMAIN visitors :
          k \notin DOMAIN visitors' =>
            now - obs[visitors[k]].t > LimiterConfig(OwnerOf(k)).expireAfter]_vars

\* C17 (as claimed): every request to a rate-limited route, with or without
\* a valid JWT, is answered only after the limiter of its (address, method,
\* path) key has checked it: it holds the key's limiter, the key is in the
\* registry, and its answer is the 429 or what the rest of the chain wrote.
C17_UnauthenticatedLimited ==
  \A p \in Procs :
    pc[p] = "done" =>
      /\ lim[p] # 0
      /\ key[p] = MakeKey(req[p])
      /\ (allowed[p] \/ resp[p] = RateLimitBody(req[p].path))

\* Auth requests that have been answered.
Answered == {p \in Procs : apc[p] = "done"}

\* C18: a refresh-token request that presents a refresh token that exists
\* but has expired is answered 200 "Token refreshed successfully" with a
\* newly generated access token and a new refresh token.
C18_ExpiredRefreshSucceeds ==
  \A p \in Answered :
    (areq[p].op = "refresh" /\ aloc[p].presented # NoRow /\ ~aloc[p].verified)
      => /\ aresp[p].status = 200
         /\ aresp[p].message = "Token refreshed successfully"
         /\ aloc[p].created # NoRow
         /\ aloc[p].created.token # aloc[p].presented.token

\* C20: at the moment a Login or RefreshToken call succeeds, the value in
\* Redis under access_token:<username> is the {AccessToken, RefreshToken,
\* ExpirationDate, TokenType} that the call returns, and its refresh token is
\* the one table refresh_tokens holds for the user.
C20_RedisMatchesReturned ==
  [][\A p \in Procs :
       (apc[p] = "store" /\ apc'[p] = "done" /\ aresp'[p].status = 200) =>
         /\ redis'[RedisKey(aloc[p].user.userName)].value = aresp'[p].data
         /\ \E r \in refreshTokens' :
              r.userID = aloc[p].user.id /\ r.token = aresp'[p].data.refreshToken
         /\ \A r \in refreshTokens' :
              r.userID = aloc[p].user.id => r.token = aresp'[p].data.refreshToken]_vars

\* Department requests that have been answered.
Served == {p \in Procs : dpc[p] = "done"}

\* C21: GetDepartmentByID, UpdateDepartment (with a body that passes
\* validation) and DeleteDepartment answer 404 "Department not found" when no
\* department has the id asked for.  (A request is at "selid" when its
\* handler runs on departmentService and its body, if any, has passed
\* validation; the step is the lookup of the id.)
C21_NotFoundIs404 ==
  [][\A p \in Procs :
       (/\ dpc[p] = "selid" /\ dpc'[p] # "selid"
        /\ dreq[p].route \in {"GetDepartmentByID", "UpdateDepartment", "DeleteDepartment"}
        /\ ~\E r \in Live(departments) : Lower(r.id) = Lower(dreq[p].id))
         => /\ dpc'[p] = "done"
            /\ dresp'[p].status = 404
            /\ dresp'[p].message = "Department not found"]_vars

\* C22: when the service call of a handler succeeds the response is 200
\* (201 for CreateDepartment) and, for the list, the fetched, the created
\* and the updated department, its data is the value the service returned.
C22_SuccessEchoesService ==
  \A p \in Served :
    (dran[p] /\ dsvc[p].err = "") =>
      /\ dresp[p].status = IF dreq[p].route = "CreateDepartment" THEN 201 ELSE 200
      /\ dreq[p].route # "DeleteDepartment" => dresp[p].data = dsvc[p].value

\* An update of d001 under the spelling D001 has been answered with the row
\* as saved.
C22_Witness ==
  \E p \in Served :
    /\ dran[p] /\ dsvc[p].err = "" /\ dreq[p].router = "app"
    /\ dreq[p].route = "UpdateDepartment" /\ dreq[p].id = "D001"
    /\ dresp[p].status = 200 /\ dresp[p].data.id = "d001"
    /\ dresp[p].data.deptName = "HR"

\* The user of request r holds a role its route allows.
HoldsAllowedRole(r) ==
  \E i \in 1..Len(r.roles) :
    \/ r.roles[i] = "ROLE_ADMIN"
    \/ r.roles[i] = "ROLE_USER" /\ r.route \in {"GetAllDepartments", "GetDepartmentByID"}

\* C23: on the application's router a department handler runs only for a
\* user who holds a role allowed for the route; any other user gets 403, the
\* handler does not run and the table is left as it was.
C23_RoleBasedAccess ==
  [][/\ \A p \in Procs :
          (dpc[p] = "idle" /\ dpc'[p] # "idle" /\ dreq'[p].router = "app") =>
            IF HoldsAllowedRole(dreq'[p])
              THEN dran'[p]
              ELSE /\ ~dran'[p] /\ dpc'[p] = "done" /\ dresp'[p].status = 403
                   /\ departments' = departments
     /\ departments' # departments =>
          \E p \in Procs : /\ dran[p] /\ dreq[p].router = "app"
                           /\ HoldsAllowedRole(dreq[p])]_vars

\* A user with ROLE_USER alone asked to delete a department that is there
\* and was turned away.
C23_Witness ==
  \E p \in Served :
    /\ dreq[p].router = "app" /\ dreq[p].route = "DeleteDepartment"
    /\ dreq[p].roles = <<"ROLE_USER">>
    /\ ~dran[p] /\ dresp[p].status = 403 /\ dresp[p].message = "Access denied"
    /\ \E r \in Live(departments) : Lower(r.id) = Lower(dreq[p].id)

\* C24: a login with the correct user name and password of a user who is
\* enabled, not expired, not locked, with unexpired credentials and not
\* deleted is answered 200 with the four token fields, also when the user
\* has never logged in before.  (aloc[p].user is the row the call found when
\* it looked the user up, aloc[p].created the refresh token it stored: a
\* login whose token the table refused, or whose Redis write failed, is not
\* counted.)
C24_EligibleLoginSucceeds ==
  \A p \in Answered :
    (/\ areq[p].op = "login"
     /\ aloc[p].user # NoUser
     /\ aloc[p].created # NoRow
     /\ LoginError(areq[p].username, areq[p].password) = ""
     /\ aresp[p].error \notin SetErrors \ {""})
      => /\ aresp[p].status = 200
         /\ aresp[p].data.refreshToken = aloc[p].created.token
         /\ aresp[p].data.tokenType = TokenType

\* C25: in every reachable state, after any interleaving of admission
\* checks, refills and sweeps, the token balance of every bucket, as stored
\* and as refilled up to the current time, is at least 0 and at most the
\* burst of its route group.
C25_TokensWithinBurst ==
  \A i \in Limiters :
    /\ 0 <= heap[i].tokens
    /\ heap[i].tokens <= Burst(i) * Every(i)
    /\ 0 <= Advance(heap[i], now)
    /\ Advance(heap[i], now) <= Burst(i) * Every(i)

\* A bucket that admitted a request, was emptied, and has since been idle
\* for longer than it takes to refill: the refill stops at the burst.
C25_Witness ==
  \E i \in Limiters :
    /\ obs[i].ok >= 1
    /\ heap[i].tokens = 0
    /\ now - heap[i].last > Burst(i) * Every(i)
    /\ Advance(heap[i], now) = Burst(i) * Every(i)

\* C26: the cleanup loops run for the whole life of the process, so under
\* fair scheduling every entry that no longer receives requests is removed
\* in the end: once the requests have stopped the registry becomes empty
\* and stays empty, and no entry stays idle beyond the longest idle TTL
\* for ever.
C26_IdleEntriesRemoved ==
  /\ <>[](DOMAIN visitors = {} /\ DOMAIN lastSeen = {})
  /\ \A r \in Requests :
       (MakeKey(r) \in DOMAIN lastSeen /\ now - lastSeen[MakeKey(r)] > DeptTTL)
         ~> (MakeKey(r) \notin DOMAIN lastSeen)

\* All the requests were served, their entries stayed idle, and the cleanup
\* passes have emptied the registry.
C26_Witness ==
  /\ nreq = LiveMaxReqs
  /\ \A p \in Procs : pc[p] = "idle"
  /\ Limiters # {}
  /\ \A i \in Limiters : obs[i].evicted
  /\ DOMAIN visitors = {} /\ DOMAIN lastSeen = {}

\* C27: the registry lock is held only around the map operations of
\* getVisitor and of a cleanup pass, never while limiter.Allow() runs or a
\* response is written; whoever takes it releases it; and no interleaving of
\* request handlers and cleanup loops deadlocks: every request that waits
\* for the lock gets through getVisitor and every request is answered.
C27_LockDiscipline ==
  /\ [](\A p \in Procs : mu = ReqHolder(p) <=> pc[p] \in {"found", "create"})
  /\ [](\A g \in Groups : mu = SweepHolder(g) <=> spc[g] = "sweep")
  /\ (mu # <<Free, 0>>) ~> (mu = <<Free, 0>>)
  /\ \A p \in Procs : (pc[p] = "lock") ~> (pc[p] = "allow")
  /\ \A p \in Procs : (pc[p] # "idle") ~> (pc[p] = "idle")

\* One request is about to call limiter.Allow() while another holds the
\* lock inside getVisitor, and a cleanup loop is due and waits for it.
C27_Witness ==
  \E p, q \in Procs :
    /\ pc[p] = "allow"
    /\ mu = ReqHolder(q)
    /\ \E g \in Groups : spc[g] = "sleep" /\ now >= wake[g]

\* C28: whenever the registry lock is free, the bucket map and the
\* last-seen map have exactly the same keys.
C28_SameKeysWhenFree ==
  mu = <<Free, 0>> => DOMAIN visitors = DOMAIN lastSeen

\* Inside getVisitor, with the lock held, a new key is in the bucket map
\* and not yet in the last-seen map.
C28_Witness ==
  \E p \in Procs :
    /\ mu = ReqHolder(p)
    /\ pc[p] = "touch"
    /\ key[p] \in DOMAIN visitors
    /\ key[p] \notin DOMAIN lastSeen

\* C29: Login is all or nothing: when it returns an error at any step, what
\* is stored for the user (the refresh token, the last-login time and the
\* Redis entry) is what was stored before the call.
C29_FailedLoginChangesNothing ==
  \A p \in Answered :
    (areq[p].op = "login" /\ aresp[p].status # 200)
      => UserState(GetUserByUserName(areq[p].username)) = aloc[p].before

\* The tokens uuid.New() has made for rows that are not yet inserted.
NotYetInserted == {aloc[p].refreshToken.token : p \in {q \in Procs : apc[q] = "create"}}

\* C30: a refresh token is used up by the next successful call: when a
\* RefreshToken or Login call for a user has succeeded, no refresh token that
\* was stored for the user when the call began is still in the table; a
\* token that has left the table never comes back; and a refresh-token
\* request that presents a token that is not in the table is answered 401.
C30_SingleUse ==
  /\ [](\A p \in Answered :
          aresp[p].status = 200 => aloc[p].before.rows \cap refreshTokens = {})
  /\ [][\A t \in (1..nuuid) \ NotYetInserted :
          GetRefreshTokenByToken(refreshTokens, t) = NoRow
            => GetRefreshTokenByToken(refreshTokens', t) = NoRow]_vars
  /\ [][\A p \in Procs :
          (/\ apc[p] = "idle" /\ areq'[p].op = "refresh"
           /\ GetRefreshTokenByToken(refreshTokens, areq'[p].refreshToken) = NoRow)
            => apc'[p] = "done" /\ aresp'[p].status = 401]_vars

\* Refresh token 1 was issued to admin by a login and replaced with token 2
\* by a later call that succeeded; a refresh-token request that presents
\* token 1 after that has been answered 401 "record not found".
C30_Witness ==
  \E p \in Answered :
    /\ areq[p].op = "refresh" /\ areq[p].refreshToken = 1
    /\ aresp[p].status = 401 /\ aresp[p].error = "record not found"
    /\ redis[RedisKey("admin")].value.refreshToken = 2
    /\ redis[RedisKey("admin")].value.accessToken.sub # ""
    /\ \E r \in refreshTokens : r.token = 2 /\ r.userID = 1

====
